---------------------------- MODULE Spec2Model ----------------------------
(***************************************************************************)
(* Model of the validated, error-classified SharePoint repository client   *)
(* (src/src/clients/sharepoint_client.py) together with the validators     *)
(* (src/src/utils/validation.py), the error taxonomy                       *)
(* (src/src/core/exceptions.py) and log_performance                        *)
(* (src/src/core/logging_config.py) it depends on.                         *)
(*                                                                         *)
(* Python strings are modelled as sequences of one-character strings, so   *)
(* that strip(), lower(), "in" and urlparse() are computed, not assumed.   *)
(* An optional value (None or a value) is a sequence of length 0 or 1.     *)
(*                                                                         *)
(* Four specifications:                                                    *)
(*   Spec          the client from its construction on;                    *)
(*   SpecSession   the same operations on a client object that holds a     *)
(*                 session;                                                *)
(*   SpecBoundary  _handle_sharepoint_errors and the block each operation  *)
(*                 runs inside it, applied to the transport's answers;     *)
(*   SpecHelpers   _clean_list_item_data, the validators, the exception    *)
(*                 constructors and the file previews, applied to inputs   *)
(*                 of their own.                                           *)
(***************************************************************************)
EXTENDS Integers, Sequences, FiniteSets, TLC

(***************************************************************************)
(* Bounds of the model.                                                    *)
(***************************************************************************)
MaxClock == 2

\* The number of items of the largest library the remote store answers with.
MaxItems == 102

\* The largest number of fields of a field map handed to the result shaper.
MaxFields == 3

\* The max_length a caller of validate_user_input passes.
SmallLimit == 6

\* The largest number of rows of a worksheet.
MaxSheetRows == 4

\* The largest max_rows a caller of preview_xlsx passes.
MaxRows == 2

\* The largest number of pages of a PDF, of paragraphs of a DOCX, and the
\* largest max_pages a caller of preview_pdf passes.
MaxPages == 2

(***************************************************************************)
(* String helpers (str methods of Python used by the code).                *)
(***************************************************************************)
\* e applied to F with e evaluated once: LET v == e IN F(v)
Bind(e, F(_)) == CHOOSE r \in {F(v) : v \in {e}} : TRUE

UpperChars ==
    <<"A","B","C","D","E","F","G","H","I","J","K","L","M",
      "N","O","P","Q","R","S","T","U","V","W","X","Y","Z">>

LowerChars ==
    <<"a","b","c","d","e","f","g","h","i","j","k","l","m",
      "n","o","p","q","r","s","t","u","v","w","x","y","z">>

Digits == {"0","1","2","3","4","5","6","7","8","9"}

UpperSet == {UpperChars[i] : i \in 1..26}

LowerSet == {LowerChars[i] : i \in 1..26}

ToLowerTable ==
    [c \in UpperSet |-> LowerChars[CHOOSE i \in 1..26 : UpperChars[i] = c]]

ToUpperTable ==
    [c \in LowerSet |-> UpperChars[CHOOSE i \in 1..26 : LowerChars[i] = c]]

LowerChar(c) == IF c \in UpperSet THEN ToLowerTable[c] ELSE c

UpperChar(c) == IF c \in LowerSet THEN ToUpperTable[c] ELSE c

Lower(str) == Bind(str, LAMBDA s : [i \in 1..Len(s) |-> LowerChar(s[i])])

Upper(str) == Bind(str, LAMBDA s : [i \in 1..Len(s) |-> UpperChar(s[i])])

IsAlpha(c) == c \in UpperSet \/ c \in LowerSet

\* A name of two or three capital letters is the one-character string holding
\* the control character of that name (NUL is U+0000, NEL is U+0085).
IsSpace(c) ==
    c \in {" ", "\t", "\n", "\r", "VT", "FF", "FS", "GS", "RS", "US", "NEL"}

\* sub in str
Contains(str, sub) ==
    \E s \in {str}, x \in {sub} :
        \E i \in 0..(Len(s) - Len(x)) : SubSeq(s, i + 1, i + Len(x)) = x

\* str.find(c) as a 1-based index, 0 when c does not occur
Find(str, c) ==
    Bind(str, LAMBDA s :
        IF \E i \in 1..Len(s) : s[i] = c
        THEN CHOOSE i \in 1..Len(s) : s[i] = c /\ \A j \in 1..(i - 1) : s[j] # c
        ELSE 0)

\* str.rfind(c) as a 1-based index, 0 when c does not occur
RFind(str, c) ==
    Bind(str, LAMBDA s :
        IF \E i \in 1..Len(s) : s[i] = c
        THEN CHOOSE i \in 1..Len(s) :
                 s[i] = c /\ \A j \in (i + 1)..Len(s) : s[j] # c
        ELSE 0)

\* str.strip()
Strip(str) ==
    Bind(str, LAMBDA s :
        IF \A i \in 1..Len(s) : IsSpace(s[i])
        THEN << >>
        ELSE SubSeq(s,
                 CHOOSE i \in 1..Len(s) :
                     ~IsSpace(s[i]) /\ \A j \in 1..(i - 1) : IsSpace(s[j]),
                 CHOOSE i \in 1..Len(s) :
                     ~IsSpace(s[i]) /\ \A j \in (i + 1)..Len(s) : IsSpace(s[j])))

\* str[i:] with a 1-based start
From(str, i) == Bind(str, LAMBDA s : SubSeq(s, i, Len(s)))

(***************************************************************************)
(* Error taxonomy (src/src/core/exceptions.py).                            *)
(***************************************************************************)
\* The error_code each exception class passes to the base constructor.
ErrorCodeOf(cls) ==
    CASE cls = "SharePointConnectionError"       -> "SP_CONNECTION_ERROR"
      [] cls = "SharePointAuthenticationError"   -> "SP_AUTH_ERROR"
      [] cls = "SharePointResourceNotFoundError" -> "SP_NOT_FOUND"
      [] cls = "SharePointTimeoutError"          -> "SP_TIMEOUT"
      [] cls = "ValidationError"                 -> "VALIDATION_ERROR"
      [] cls = "SecurityError"                   -> "SECURITY_ERROR"
      [] cls = "ConfigurationError"              -> "CONFIG_ERROR"
      [] cls = "FileOperationError"              -> "FILE_ERROR"
      [] cls = "FileNotFoundError"               -> "FILE_NOT_FOUND"
      [] cls = "FileTooLargeError"               -> "FILE_TOO_LARGE"
      [] cls = "InvalidFileTypeError"            -> "INVALID_FILE_TYPE"
      [] cls = "FileDownloadError"               -> "FILE_DOWNLOAD_ERROR"
      [] OTHER                                   -> "none"

\* The subclasses of FileOperationError pass error_code to a constructor that
\* itself passes error_code to the base class.
FileOperationSubclasses ==
    {"FileNotFoundError", "FileTooLargeError", "InvalidFileTypeError",
     "FileDownloadError"}

\* The exception that `raise cls(message)` raises: constructing a subclass of
\* FileOperationError fails with TypeError (two values for error_code).
Raise(cls) ==
    IF cls \in FileOperationSubclasses
    THEN [ok |-> FALSE, err |-> "TypeError", code |-> "none"]
    ELSE [ok |-> FALSE, err |-> cls, code |-> ErrorCodeOf(cls)]

(***************************************************************************)
(* Program constants (src/src/core/constants.py).                          *)
(***************************************************************************)
MAX_URL_LENGTH == 2048

MAX_QUERY_LENGTH == 500

MAX_FILENAME_LENGTH == 255

MAX_LIBRARY_NAME_LENGTH == 100

MIN_SECRET_LENGTH == 10

MAX_SEARCH_RESULTS == 100

MAX_FILE_SIZE == 52428800

MAX_PREVIEW_SIZE == 10485760

PREVIEW_TEXT_LIMIT == 1000

DOCUMENT_LIBRARY_TEMPLATE == 101

(***************************************************************************)
(* urllib.parse.urlparse, as far as validate_url reads its result.         *)
(***************************************************************************)
SchemeChars == Digits \cup {"+", "-", "."}

\* Index of the first of "/", "?", "#" in s at or after position start,
\* Len(s) + 1 when there is none.
NetlocEnd(str, start) ==
    Bind(str, LAMBDA s :
        IF \E i \in start..Len(s) : s[i] \in {"/", "?", "#"}
        THEN CHOOSE i \in start..Len(s) :
                 s[i] \in {"/", "?", "#"}
                 /\ \A j \in start..(i - 1) : s[j] \notin {"/", "?", "#"}
        ELSE Len(s) + 1)

\* ParseResult.hostname: the netloc without userinfo and port, lower-cased;
\* the empty string stands for None.
HostnameOf(netloc) ==
    Bind(From(netloc, RFind(netloc, "@") + 1), LAMBDA hostinfo :
        Bind(<<Find(hostinfo, "["), Find(hostinfo, "]"), Find(hostinfo, ":")>>,
             LAMBDA at :
                 IF at[1] > 0
                 THEN IF at[2] > at[1]
                      THEN Lower(SubSeq(hostinfo, at[1] + 1, at[2] - 1))
                      ELSE Lower(From(hostinfo, at[1] + 1))
                 ELSE IF at[3] > 0
                      THEN Lower(SubSeq(hostinfo, 1, at[3] - 1))
                      ELSE Lower(hostinfo)))

\* The scheme of url and what follows its colon.
SplitScheme(url) ==
    Bind(Find(url, ":"), LAMBDA colon :
        IF /\ colon > 1
           /\ IsAlpha(url[1])
           /\ \A i \in 1..(colon - 1) : IsAlpha(url[i]) \/ url[i] \in SchemeChars
        THEN [scheme |-> Lower(SubSeq(url, 1, colon - 1)),
              rest   |-> From(url, colon + 1)]
        ELSE [scheme |-> << >>, rest |-> url])

\* The netloc after "//" and what follows it.
SplitNetloc(rest) ==
    IF Len(rest) >= 2 /\ SubSeq(rest, 1, 2) = <<"/", "/">>
    THEN Bind(NetlocEnd(rest, 3), LAMBDA nend :
             [netloc |-> SubSeq(rest, 3, nend - 1), rest |-> From(rest, nend)])
    ELSE [netloc |-> << >>, rest |-> rest]

\* uses_params: the schemes whose last path segment urlparse splits at ";"
UsesParams ==
    { << >>, <<"f","t","p">>, <<"h","d","l">>, <<"p","r","o","s","p","e","r","o">>, <<"h","t","t","p">>, <<"i","m","a","p">>, <<"h","t","t","p","s">>,
      <<"s","h","t","t","p">>, <<"r","t","s","p">>, <<"r","t","s","p","u">>, <<"s","i","p">>, <<"s","i","p","s">>, <<"m","m","s">>, <<"s","f","t","p">>,
      <<"t","e","l">> }

\* _splitparams: the path up to the first ";" of its last segment
WithoutParams(path) ==
    Bind(path, LAMBDA p :
        Bind(RFind(p, "/"), LAMBDA slash :
            IF \E i \in (IF slash > 0 THEN slash ELSE 1)..Len(p) : p[i] = ";"
            THEN SubSeq(p, 1,
                     (CHOOSE i \in (IF slash > 0 THEN slash ELSE 1)..Len(p) :
                          /\ p[i] = ";"
                          /\ \A j \in (IF slash > 0 THEN slash ELSE 1)..(i - 1) :
                                 p[j] # ";") - 1)
            ELSE p))

\* The path and the query of rest, its fragment dropped, and for a scheme
\* of uses_params the parameters of the path dropped.
SplitPath(scheme, rest) ==
    Bind(IF Find(rest, "#") > 0 THEN SubSeq(rest, 1, Find(rest, "#") - 1)
         ELSE rest,
         LAMBDA r :
             Bind(Find(r, "?"), LAMBDA qmark :
                 Bind(IF qmark > 0 THEN SubSeq(r, 1, qmark - 1) ELSE r,
                      LAMBDA path :
                          [path  |-> IF scheme \in UsesParams
                                     THEN WithoutParams(path) ELSE path,
                           query |-> IF qmark > 0 THEN From(r, qmark + 1)
                                     ELSE << >>])))

\* ok is FALSE when urlsplit raises ValueError (unbalanced brackets)
urlparse(str) ==
    Bind(str, LAMBDA url :
    Bind(SplitScheme(url), LAMBDA a :
    Bind(SplitNetloc(a.rest), LAMBDA b :
    Bind(SplitPath(a.scheme, b.rest), LAMBDA c :
        [ok       |-> ~ \/ (Find(b.netloc, "[") > 0 /\ Find(b.netloc, "]") = 0)
                        \/ (Find(b.netloc, "]") > 0 /\ Find(b.netloc, "[") = 0),
         scheme   |-> a.scheme,
         netloc   |-> b.netloc,
         path     |-> c.path,
         query    |-> c.query,
         hostname |-> HostnameOf(b.netloc)]))))

(***************************************************************************)
(* Validation layer (src/src/utils/validation.py).  A validator returns    *)
(* [ok |-> TRUE, val |-> v] or the exception it raises.                    *)
(***************************************************************************)
Http == <<"h","t","t","p">>

Https == <<"h","t","t","p","s">>

LocalhostNames ==
    { <<"l","o","c","a","l","h","o","s","t">>,
      <<"1","2","7",".","0",".","0",".","1">>,
      <<":",":","1">> }

\* validate_url without the localhost restriction of lines 59-60.
validate_url_any_host(url, allow_localhost) ==
    IF url = << >> THEN Raise("ValidationError")
    ELSE IF Len(url) > MAX_URL_LENGTH THEN Raise("ValidationError")
    ELSE Bind(urlparse(Strip(url)), LAMBDA parsed :
             IF ~parsed.ok THEN Raise("ValidationError")
             ELSE IF parsed.scheme \notin {Http, Https}
                  THEN Raise("ValidationError")
             ELSE IF parsed.hostname = << >> THEN Raise("ValidationError")
             ELSE [ok  |-> TRUE,
                   val |-> parsed.scheme \o <<":", "/", "/">> \o parsed.netloc
                           \o parsed.path
                           \o (IF parsed.query # << >>
                               THEN <<"?">> \o parsed.query ELSE << >>)])

validate_url(url, allow_localhost) ==
    IF url = << >> THEN Raise("ValidationError")
    ELSE IF Len(url) > MAX_URL_LENGTH THEN Raise("ValidationError")
    ELSE Bind(urlparse(Strip(url)), LAMBDA parsed :
             IF ~parsed.ok THEN Raise("ValidationError")
             ELSE IF parsed.scheme \notin {Http, Https}
                  THEN Raise("ValidationError")
             ELSE IF parsed.hostname = << >> THEN Raise("ValidationError")
             ELSE IF ~allow_localhost /\ parsed.hostname \in LocalhostNames
                  THEN Raise("ValidationError")
             ELSE [ok  |-> TRUE,
                   val |-> parsed.scheme \o <<":", "/", "/">> \o parsed.netloc
                           \o parsed.path
                           \o (IF parsed.query # << >>
                               THEN <<"?">> \o parsed.query ELSE << >>)])

validate_credentials(client_id, client_secret) ==
    IF client_id = << >> THEN Raise("ValidationError")
    ELSE IF client_secret = << >> THEN Raise("ValidationError")
    ELSE Bind(Strip(client_secret), LAMBDA secret :
             IF Len(secret) < MIN_SECRET_LENGTH THEN Raise("ValidationError")
             ELSE [ok |-> TRUE, val |-> <<Strip(client_id), secret>>])

NameInvalidChars == {"<", ">", ":", "\"", "|", "?", "*", "\\", "/"}

validate_library_name(library_name) ==
    IF library_name = << >> THEN Raise("ValidationError")
    ELSE Bind(Strip(library_name), LAMBDA name :
             IF Len(name) > MAX_LIBRARY_NAME_LENGTH THEN Raise("ValidationError")
             ELSE IF \E i \in 1..Len(name) : name[i] \in NameInvalidChars
                  THEN Raise("ValidationError")
             ELSE [ok |-> TRUE, val |-> name])

\* The grave accent cannot be written inside a TLA+ string; this token is the
\* one-character string holding it.
GraveAccent == "GRAVE"

QueryDangerousChars == {"<", ">", "\"", "'", "&", ";", "|", GraveAccent}

SqlKeywords ==
    { <<"S","E","L","E","C","T">>, <<"I","N","S","E","R","T">>,
      <<"U","P","D","A","T","E">>, <<"D","E","L","E","T","E">>,
      <<"D","R","O","P">>, <<"U","N","I","O","N">>, <<"E","X","E","C">> }

validate_search_query(query) ==
    IF query = << >> THEN Raise("ValidationError")
    ELSE Bind(Strip(query), LAMBDA q :
             IF Len(q) > MAX_QUERY_LENGTH THEN Raise("ValidationError")
             ELSE IF \E i \in 1..Len(q) : q[i] \in QueryDangerousChars
                  THEN Raise("SecurityError")
             ELSE IF \E upper \in {Upper(q)} :
                         \E k \in SqlKeywords : Contains(upper, k)
                  THEN Raise("SecurityError")
             ELSE [ok |-> TRUE, val |-> q])

ReservedNames ==
    { <<"C","O","N">>, <<"P","R","N">>, <<"A","U","X">>, <<"N","U","L">> }
    \cup { <<"C","O","M", d>> : d \in Digits \ {"0"} }
    \cup { <<"L","P","T", d>> : d \in Digits \ {"0"} }

\* os.path.splitext(p)[0]: the name up to its last dot, unless that dot
\* only follows leading dots (a name without separators).
SplitextRoot(p) ==
    Bind(RFind(p, "."), LAMBDA dot :
        IF dot > 0 /\ \E j \in 1..(dot - 1) : p[j] # "."
        THEN SubSeq(p, 1, dot - 1)
        ELSE p)

validate_filename(filename) ==
    IF filename = << >> THEN Raise("ValidationError")
    ELSE Bind(Strip(filename), LAMBDA f :
             IF Len(f) > MAX_FILENAME_LENGTH THEN Raise("ValidationError")
             ELSE IF \E i \in 1..Len(f) : f[i] \in NameInvalidChars
                  THEN Raise("ValidationError")
             ELSE IF Upper(SplitextRoot(f)) \in ReservedNames
                  THEN Raise("ValidationError")
             ELSE [ok |-> TRUE, val |-> f])

\* re.sub(r'<[^>]*>', '', text): each "<" that a ">" follows is removed
\* with everything up to the first such ">".
RECURSIVE StripTags(_)
StripTags(text) ==
    Bind(Find(text, "<"), LAMBDA open :
        IF open = 0 THEN text
        ELSE Bind(Find(From(text, open + 1), ">"), LAMBDA close :
                 IF close = 0 THEN text
                 ELSE SubSeq(text, 1, open - 1)
                      \o StripTags(From(text, open + close + 1))))

\* The class [\x00-\x08\x0B\x0C\x0E-\x1F\x7F] of line 259.
RemovedControls ==
    {"NUL", "SOH", "STX", "ETX", "EOT", "ENQ", "ACK", "BEL", "BS", "VT", "FF",
     "SO", "SI", "DLE", "DC1", "DC2", "DC3", "DC4", "NAK", "SYN", "ETB",
     "CAN", "EM", "SUB", "ESC", "FS", "GS", "RS", "US", "DEL"}

RemoveControls(text) == SelectSeq(text, LAMBDA c : c \notin RemovedControls)

\* max_length is << >> for None.
validate_user_input(text, max_length) ==
    Bind(IF max_length = << >> THEN MAX_QUERY_LENGTH ELSE max_length[1],
         LAMBDA limit :
             IF text = << >> THEN Raise("ValidationError")
             ELSE Bind(Strip(text), LAMBDA stripped :
                      IF Len(stripped) > limit THEN Raise("ValidationError")
                      ELSE [ok  |-> TRUE,
                            val |-> RemoveControls(StripTags(stripped))]))

(***************************************************************************)
(* Python values of the remote store's field maps: a dict is a function    *)
(* whose domain is the set of keys present; a value carries its type.      *)
(***************************************************************************)
StrV(s) == [t |-> "str", v |-> s]

IntV(n) == [t |-> "int", v |-> n]

DictV(d) == [t |-> "dict", v |-> d]

NoneValue == [t |-> "none", v |-> << >>]

EmptyDict == << >>

\* Field names of the remote store, as Python strings.
K_BaseTemplate == <<"B","a","s","e","T","e","m","p","l","a","t","e">>

K_ContentType == <<"C","o","n","t","e","n","t","T","y","p","e">>

K_Created == <<"C","r","e","a","t","e","d">>

K_Description == <<"D","e","s","c","r","i","p","t","i","o","n">>

K_Editor == <<"E","d","i","t","o","r">>

K_FileLeafRef == <<"F","i","l","e","L","e","a","f","R","e","f">>

K_FileRef == <<"F","i","l","e","R","e","f">>

K_File_x0020_Size == <<"F","i","l","e","_","x","0","0","2","0","_","S","i","z","e">>

K_Id == <<"I","d">>

K_ItemCount == <<"I","t","e","m","C","o","u","n","t">>

K_LastItemModifiedDate == <<"L","a","s","t","I","t","e","m","M","o","d","i","f","i","e","d","D","a","t","e">>

K_Modified == <<"M","o","d","i","f","i","e","d">>

K_Title == <<"T","i","t","l","e">>

\* a == b for two values of the remote store
Same(a, b) == a.t = b.t /\ a.v = b.v

\* d.get(key, default)
Get(d, key, default) == IF key \in DOMAIN d THEN d[key] ELSE default

(***************************************************************************)
(* The transport (office365 ClientContext / File).  A response is what one *)
(* network call answers: success with data, a ClientRequestException with  *)
(* its text, or another exception.                                         *)
(***************************************************************************)
\* The failures a transport call is answered with: a ClientRequestException
\* with its text, or another exception.
Failures ==
    { [kind |-> "ClientRequestException", text |-> x, data |-> << >>] :
          x \in {<<"4","0","1">>, <<"4","0","4">>, <<"R","e","a","d"," ","T","i","m","e","o","u","t">>, <<"5","0","0">>} }
    \cup { [kind |-> "Exception", text |-> <<"r","e","s","e","t">>, data |-> << >>] }

OkResponse(d) == [kind |-> "ok", text |-> << >>, data |-> d]

ProbeResponses == {OkResponse(<< >>)} \cup Failures

\* One entry of the record of transport calls of an invocation.
Call(name, site, ok) == [call |-> name, site |-> site, ok |-> ok]

(***************************************************************************)
(* Results of an invocation: a returned value or the raised exception.     *)
(***************************************************************************)
Return(v) == [ok |-> TRUE, err |-> "none", code |-> "none", value |-> v]

Throw(cls) ==
    [ok |-> FALSE, err |-> Raise(cls).err, code |-> Raise(cls).code,
     value |-> << >>]

(***************************************************************************)
(* State.                                                                  *)
(***************************************************************************)
VARIABLES
    ctx,              \* self.ctx: None or the client context
    site_url,         \* self.site_url: None or the validated URL
    is_connected,     \* self.is_connected
    connection_time,  \* self.connection_time: None or a time
    clock,            \* time.time()
    op,               \* the last operation invoked
    inp,              \* its arguments and the transport's responses
    pre,              \* the client's fields when it was invoked
    result,           \* what it returned or raised
    tlog,             \* the transport calls it made, in order
    authed            \* the probe has succeeded and disconnect() was not
                      \* called since

vars ==
    <<ctx, site_url, is_connected, connection_time, clock,
      op, inp, pre, result, tlog, authed>>

Fields ==
    [ctx |-> ctx, site_url |-> site_url, is_connected |-> is_connected,
     connection_time |-> connection_time]

\* A new client whose connected flag starts raised.
NoSessionFlagged ==
    [ctx |-> << >>, site_url |-> << >>, is_connected |-> TRUE,
     connection_time |-> << >>]

\* The fields __init__ assigns before it connects: no session.
NoSession ==
    [ctx |-> << >>, site_url |-> << >>, is_connected |-> FALSE,
     connection_time |-> << >>]

(***************************************************************************)
(* Inputs of the model.                                                    *)
(***************************************************************************)
ValidUrl == <<"h","t","t","p","s",":","/","/","a",".","i","o","/","s">>

PaddedUrl == <<" ","h","t","t","p","s",":","/","/","a",".","i","o","/","s","#","t","o","p"," ">>

FtpUrl == <<"f","t","p",":","/","/","a",".","i","o">>

UrlInputs == {<< >>, PaddedUrl, FtpUrl}

ClientIdInputs == {<< >>, <<"a","p","p","-","1">>}

ValidSecret == <<" ","0","1","2","3","4","5","6","7","8","9">>

ShortSecret == <<"s","h","o","r","t">>

SecretInputs == {ValidSecret, ShortSecret}

ValidSettings ==
    [site_url |-> ValidUrl, client_id |-> <<"a","p","p","-","1">>,
     client_secret |-> ValidSecret]

\* config_manager.sharepoint: not loaded, loaded with a setting missing,
\* loaded and complete, loaded and complete with a secret that is too short.
ConfigInputs ==
    { << >>,
      <<[ValidSettings EXCEPT !.client_secret = << >>]>>,
      <<ValidSettings>>,
      <<[ValidSettings EXCEPT !.client_secret = ShortSecret]>> }

(***************************************************************************)
(* SharePointClient: connecting.                                           *)
(***************************************************************************)
\* Entering `with log_performance(logger, operation)`: __enter__ reads
\* time.time(), and time is not a name of logging_config.py (the module
\* imports it inside __exit__ and inside the wrapper of log_function_call
\* only), so __enter__ raises NameError and the block is not run.
log_performance_enter == Raise("NameError")

\* A round trip that is tried a second time when it fails.
LoadAndExecuteRetried(site, resp) ==
    IF resp.kind = "ok"
    THEN <<Call("load", site, TRUE), Call("execute_query", site, TRUE)>>
    ELSE <<Call("load", site, TRUE), Call("execute_query", site, FALSE),
           Call("load", site, TRUE), Call("execute_query", site, FALSE)>>

\* load followed by execute_query at one call site
LoadAndExecute(site, resp) ==
    <<Call("load", site, TRUE), Call("execute_query", site, resp.kind = "ok")>>

\* File.open_binary
OpenBinary(ok) == <<Call("open_binary", "download", ok)>>

\* The probe of a connection attempt succeeded.
ProbeSucceeded(calls) ==
    \E i \in DOMAIN calls :
        /\ calls[i].call = "execute_query"
        /\ calls[i].site = "connect"
        /\ calls[i].ok

\* The error _connect_with_credentials raises for a failed probe.
connect_error(resp) ==
    IF /\ resp.kind = "ClientRequestException"
       /\ \/ Contains(resp.text, <<"4","0","1">>)
          \/ Contains(resp.text, <<"4","0","3">>)
    THEN "SharePointAuthenticationError"
    ELSE "SharePointConnectionError"

\* ClientContext(validated_url).with_credentials(ClientCredential(id, secret))
new_context(url, credentials) ==
    [url |-> url, client_id |-> credentials[1],
     client_secret |-> credentials[2]]

\* The fields after a probe that succeeded: ctx was assigned before the
\* probe, the other three after it.
connected_session(context, url, now) ==
    [ctx             |-> <<context>>,
     site_url        |-> <<url>>,
     is_connected    |-> TRUE,
     connection_time |-> <<now>>]

\* The fields after a probe that failed: ctx was assigned before the probe
\* and no except clause resets a field.
failed_session(f, context) == [f EXCEPT !.ctx = <<context>>]

\* _connect_with_credentials on a client whose fields are f, at time now,
\* the transport answering the probe by resp when it is asked.
connect_with_credentials(f, url, client_id, client_secret, resp, now) ==
    Bind(validate_url(url, TRUE), LAMBDA vurl :
    Bind(validate_credentials(client_id, client_secret), LAMBDA vcred :
        IF ~vurl.ok \/ ~vcred.ok
        THEN \* except Exception: the validator's error is wrapped
             [fields |-> f,
              result |-> Throw("SharePointConnectionError"),
              tlog   |-> << >>]
        ELSE IF ~log_performance_enter.ok
        THEN \* except Exception: the error of entering the with block is
             \* wrapped; the block has assigned nothing and called nothing
             [fields |-> f,
              result |-> Throw("SharePointConnectionError"),
              tlog   |-> << >>]
        ELSE IF resp.kind = "ok"
        THEN [fields |-> connected_session(new_context(vurl.val, vcred.val),
                                           vurl.val, now),
              result |-> Return(<< >>),
              tlog   |-> LoadAndExecute("connect", resp)]
        ELSE [fields |-> failed_session(f, new_context(vurl.val, vcred.val)),
              result |-> Throw(connect_error(resp)),
              tlog   |-> LoadAndExecute("connect", resp)]))

\* ConfigManager.is_sharepoint_configured
is_sharepoint_configured(cfg) ==
    /\ cfg # << >>
    /\ cfg[1].site_url # << >>
    /\ cfg[1].client_id # << >>
    /\ cfg[1].client_secret # << >>

\* _connect_from_config
connect_from_config(f, cfg, resp, now) ==
    IF ~is_sharepoint_configured(cfg)
    THEN [fields |-> f, result |-> Return(<< >>), tlog |-> << >>]
    ELSE Bind(connect_with_credentials(f, cfg[1].site_url, cfg[1].client_id,
                                       cfg[1].client_secret, resp, now),
              LAMBDA c :
                  IF c.result.ok
                  THEN c
                  ELSE [c EXCEPT !.result = Throw("SharePointConnectionError")])

\* An __init__ that connects with the supplied arguments as soon as one of
\* them is given.
client_init_any_argument(url, client_id, client_secret, cfg, resp, now) ==
    IF url # << >> \/ client_id # << >> \/ client_secret # << >>
    THEN connect_with_credentials(NoSession, url, client_id, client_secret,
                                  resp, now)
    ELSE connect_from_config(NoSession, cfg, resp, now)

\* __init__
client_init(url, client_id, client_secret, cfg, resp, now) ==
    IF url # << >> /\ client_id # << >> /\ client_secret # << >>
    THEN connect_with_credentials(NoSession, url, client_id, client_secret,
                                  resp, now)
    ELSE connect_from_config(NoSession, cfg, resp, now)

Init ==
    /\ ctx = << >>
    /\ site_url = << >>
    /\ is_connected = FALSE
    /\ connection_time = << >>
    /\ clock = 1
    /\ op = "none"
    /\ inp = << >>
    /\ pre = NoSession
    /\ result = Return(<< >>)
    /\ tlog = << >>
    /\ authed = FALSE

\* Apply the outcome c of a connection attempt.
Connected(c) ==
    /\ ctx' = c.fields.ctx
    /\ site_url' = c.fields.site_url
    /\ is_connected' = c.fields.is_connected
    /\ connection_time' = c.fields.connection_time
    /\ result' = c.result
    /\ tlog' = c.tlog

\* The arguments of a connection attempt pass the validators.
ConnectArgumentsPass(url, client_id, client_secret) ==
    /\ validate_url(url, TRUE).ok
    /\ validate_credentials(client_id, client_secret).ok

\* The answers a call is given: those of the transport when the guard and
\* the validators let the invocation through to the block that makes the
\* call, a placeholder when they do not.
Unused == OkResponse(<< >>)

Answers(through, responses) == IF through THEN responses ELSE {Unused}

\* SharePointClient(site_url, client_id, client_secret): a new client object;
\* the configuration is read when an argument is missing
NewClient ==
    \E now \in {clock} :
        \E url \in UrlInputs, id \in ClientIdInputs, secret \in SecretInputs :
            \E cfg \in IF url # << >> /\ id # << >> /\ secret # << >>
                        THEN {<< >>} ELSE ConfigInputs :
                \E resp \in Answers(
                        IF url # << >> /\ id # << >> /\ secret # << >>
                        THEN ConnectArgumentsPass(url, id, secret)
                        ELSE /\ is_sharepoint_configured(cfg)
                             /\ ConnectArgumentsPass(cfg[1].site_url,
                                                     cfg[1].client_id,
                                                     cfg[1].client_secret),
                        ProbeResponses) :
                    \E c \in {client_init(url, id, secret, cfg, resp, now)} :
                        /\ Connected(c)
                        /\ op' = "init"
                        /\ inp' = [site_url |-> url, client_id |-> id,
                                   client_secret |-> secret, config |-> cfg,
                                   resps |-> <<resp>>]
                        /\ pre' = NoSession
                        /\ authed' = ProbeSucceeded(c.tlog)
                        /\ UNCHANGED clock

\* _connect_with_credentials called on the existing client object
Reconnect ==
    \E f \in {Fields}, now \in {clock} :
        \E url \in UrlInputs, id \in ClientIdInputs, secret \in SecretInputs :
            \E resp \in Answers(ConnectArgumentsPass(url, id, secret),
                                ProbeResponses) :
                \E c \in {connect_with_credentials(f, url, id, secret, resp,
                                                    now)} :
                    /\ op # "none"
                    /\ Connected(c)
                    /\ op' = "connect"
                    /\ inp' = [site_url |-> url, client_id |-> id,
                               client_secret |-> secret, resps |-> <<resp>>]
                    /\ pre' = f
                    /\ authed' = (authed \/ ProbeSucceeded(c.tlog))
                    /\ UNCHANGED clock

\* A disconnect that forgets to clear the endpoint.
disconnect_session_keeps_url(f) ==
    [ctx             |-> << >>,
     site_url        |-> f.site_url,
     is_connected    |-> FALSE,
     connection_time |-> << >>]

\* The fields after disconnect().
disconnect_session(f) ==
    [ctx             |-> IF f.ctx # << >> THEN << >> ELSE f.ctx,
     site_url        |-> << >>,
     is_connected    |-> FALSE,
     connection_time |-> << >>]

\* Leave the session of a client whose fields are f: disconnect() returns
\* nothing and raises nothing.
Release(name, args, f) ==
    \E released \in {disconnect_session(f)} :
        /\ op # "none"
        /\ ctx' = released.ctx
        /\ site_url' = released.site_url
        /\ is_connected' = released.is_connected
        /\ connection_time' = released.connection_time
        /\ op' = name
        /\ inp' = args
        /\ pre' = f
        /\ result' = Return(<< >>)
        /\ tlog' = << >>
        /\ authed' = FALSE
        /\ UNCHANGED clock

\* disconnect()
disconnect == \E f \in {Fields} : Release("disconnect", << >>, f)

\* __exit__(exc_type, exc_val, exc_tb): leaving a with block, raised or not
context_exit ==
    \E f \in {Fields} :
        \E raised \in BOOLEAN : Release("exit", [raised |-> raised], f)

\* time passes
Tick ==
    \E now \in {clock} :
        /\ now < MaxClock
        /\ clock' = now + 1
        /\ UNCHANGED <<ctx, site_url, is_connected, connection_time,
                       op, inp, pre, result, tlog, authed>>

(***************************************************************************)
(* SharePointClient: the fault-classification boundary and the guards.     *)
(***************************************************************************)
\* A boundary that looks for "404" before "401" and "403".
handle_sharepoint_errors_404_first(exc) ==
    IF exc.kind = "ClientRequestException"
    THEN IF Contains(exc.text, <<"4","0","4">>)
         THEN "SharePointResourceNotFoundError"
         ELSE IF Contains(exc.text, <<"4","0","1">>) \/ Contains(exc.text, <<"4","0","3">>)
         THEN "SharePointAuthenticationError"
         ELSE IF Contains(Lower(exc.text), <<"t","i","m","e","o","u","t">>)
         THEN "SharePointTimeoutError"
         ELSE "SharePointConnectionError"
    ELSE "SharePointConnectionError"

\* _handle_sharepoint_errors: the class raised for an exception that leaves
\* the with block; exc is [kind |-> exception class, text |-> str(e)].
handle_sharepoint_errors(exc) ==
    IF exc.kind = "ClientRequestException"
    THEN IF Contains(exc.text, <<"4","0","1">>) \/ Contains(exc.text, <<"4","0","3">>)
         THEN "SharePointAuthenticationError"
         ELSE IF Contains(exc.text, <<"4","0","4">>)
         THEN "SharePointResourceNotFoundError"
         ELSE IF Contains(Lower(exc.text), <<"t","i","m","e","o","u","t">>)
         THEN "SharePointTimeoutError"
         ELSE "SharePointConnectionError"
    ELSE "SharePointConnectionError"

\* A guard that lets every client through.
ensure_connected_skipped(f) == TRUE

\* _ensure_connected passes
ensure_connected(f) == f.is_connected /\ f.ctx # << >>

Outcome(r, calls) == [result |-> r, tlog |-> calls]

(***************************************************************************)
(* list_document_libraries                                                 *)
(***************************************************************************)

library_info(p) ==
    [title         |-> Get(p, K_Title, StrV(<< >>)),
     description   |-> Get(p, K_Description, StrV(<< >>)),
     item_count    |-> Get(p, K_ItemCount, IntV(0)),
     created       |-> Get(p, K_Created, StrV(<< >>)),
     last_modified |-> Get(p, K_LastItemModifiedDate, StrV(<< >>)),
     id            |-> Get(p, K_Id, StrV(<< >>))]

IsDocumentLibrary(p) ==
    Same(Get(p, K_BaseTemplate, NoneValue), IntV(DOCUMENT_LIBRARY_TEMPLATE))

\* The block of list_document_libraries inside the boundary.
list_document_libraries_block(resp) ==
    IF resp.kind # "ok"
    THEN Outcome(Throw(handle_sharepoint_errors(resp)),
                 LoadAndExecute("lists", resp))
    ELSE Bind(SelectSeq(resp.data, IsDocumentLibrary), LAMBDA libs :
             Outcome(Return([i \in 1..Len(libs) |-> library_info(libs[i])]),
                     LoadAndExecute("lists", resp)))

\* list_document_libraries: the guard, then log_performance around the
\* boundary; what entering log_performance raises is outside the boundary
\* and `except Exception: raise` passes it on.
list_document_libraries(f, resp) ==
    IF ~ensure_connected(f)
    THEN Outcome(Throw("SharePointConnectionError"), << >>)
    ELSE IF ~log_performance_enter.ok
    THEN Outcome(Throw(log_performance_enter.err), << >>)
    ELSE list_document_libraries_block(resp)

(***************************************************************************)
(* search_documents                                                        *)
(***************************************************************************)
\* _get_author_name
get_author_name(editor_info) ==
    IF editor_info.t = "dict"
    THEN Get(editor_info.v, K_Title, StrV(<<"U","n","k","n","o","w","n">>))
    ELSE StrV(<<"U","n","k","n","o","w","n">>)

document_row(p) ==
    [Name        |-> Get(p, K_FileLeafRef, StrV(<< >>)),
     Modified    |-> Get(p, K_Modified, StrV(<< >>)),
     Author      |-> get_author_name(Get(p, K_Editor, DictV(EmptyDict))),
     Size        |-> Get(p, K_File_x0020_Size, IntV(0)),
     FileRef     |-> Get(p, K_FileRef, StrV(<< >>)),
     ContentType |-> Get(p, K_ContentType, StrV(<< >>)),
     Created     |-> Get(p, K_Created, StrV(<< >>))]

\* A cap that keeps the last MAX_SEARCH_RESULTS rows: results[-MAX:].
LimitLast(results) ==
    Bind(results, LAMBDA rows :
        IF Len(rows) > MAX_SEARCH_RESULTS
        THEN SubSeq(rows, Len(rows) - MAX_SEARCH_RESULTS + 1, Len(rows))
        ELSE rows)

\* results[:MAX_SEARCH_RESULTS]
Limit(results) ==
    Bind(results, LAMBDA rows :
        IF Len(rows) > MAX_SEARCH_RESULTS
        THEN SubSeq(rows, 1, MAX_SEARCH_RESULTS)
        ELSE rows)

\* The exception that leaves the inner try around the item fetch of
\* search_documents and list_items: a 404 is replaced by
\* SharePointResourceNotFoundError, anything else is re-raised.
ItemFetchError(resp) ==
    IF resp.kind = "ClientRequestException" /\ Contains(resp.text, <<"4","0","4">>)
    THEN [kind |-> "SharePointResourceNotFoundError", text |-> resp.text]
    ELSE [kind |-> resp.kind, text |-> resp.text]

MatchingDocuments(items, query_lower) ==
    SelectSeq(items,
        LAMBDA p : Contains(Lower(Get(p, K_FileLeafRef, StrV(<< >>)).v),
                            query_lower))

\* The block of search_documents inside the boundary.
search_documents_block(query, resp) ==
    IF resp.kind # "ok"
    THEN Outcome(Throw(handle_sharepoint_errors(ItemFetchError(resp))),
                 LoadAndExecute("items", resp))
    ELSE IF \E i \in 1..Len(resp.data) :
                Get(resp.data[i], K_FileLeafRef, StrV(<< >>)).t # "str"
    THEN \* file_name.lower() fails inside the with block
         Outcome(Throw(handle_sharepoint_errors(
                     [kind |-> "AttributeError", text |-> << >>])),
                 LoadAndExecute("items", resp))
    ELSE Bind(MatchingDocuments(resp.data, Lower(query)), LAMBDA found :
             Outcome(Return(Limit([i \in 1..Len(found) |->
                                       document_row(found[i])])),
                     LoadAndExecute("items", resp)))

\* A search_documents that leaves out the validators.
search_documents_unvalidated(f, library_title, query_text, resp) ==
    IF ~ensure_connected(f)
    THEN Outcome(Throw("SharePointConnectionError"), << >>)
    ELSE IF ~log_performance_enter.ok
    THEN Outcome(Throw(log_performance_enter.err), << >>)
    ELSE search_documents_block(query_text, resp)

\* search_documents: the guard, the validators, then log_performance around
\* the boundary.
search_documents(f, library_title, query_text, resp) ==
    Bind(validate_library_name(library_title), LAMBDA vlib :
    Bind(validate_search_query(query_text), LAMBDA vquery :
        IF ~ensure_connected(f)
        THEN Outcome(Throw("SharePointConnectionError"), << >>)
        ELSE IF ~vlib.ok THEN Outcome(Throw(vlib.err), << >>)
        ELSE IF ~vquery.ok THEN Outcome(Throw(vquery.err), << >>)
        ELSE IF ~log_performance_enter.ok
        THEN Outcome(Throw(log_performance_enter.err), << >>)
        ELSE search_documents_block(vquery.val, resp)))

(***************************************************************************)
(* download_file                                                           *)
(***************************************************************************)
\* _find_file_url: the FileRef of the first item whose FileLeafRef equals
\* file_name, None when there is none or when the scan fails.
find_file_url(file_name, resp) ==
    IF resp.kind # "ok" THEN NoneValue
    ELSE Bind(SelectSeq(resp.data,
                  LAMBDA p : Same(Get(p, K_FileLeafRef, NoneValue),
                                 StrV(file_name))),
              LAMBDA named :
                  IF named = << >> THEN NoneValue
                  ELSE Get(named[1], K_FileRef, NoneValue))

\* not file_url
Falsy(value) ==
    \E x \in {value} :
        \/ x.t = "none"
        \/ x.t = "str" /\ x.v = << >>
        \/ x.t = "int" /\ x.v = 0
        \/ x.t = "dict" /\ DOMAIN x.v = {}

\* What leaves the boundary when exc is raised inside it: raising a
\* FileOperationError subclass raises the TypeError of its construction, and
\* the boundary turns what it catches into an error of the taxonomy.
RaisedInBoundary(exc) ==
    Throw(handle_sharepoint_errors([kind |-> Raise(exc.kind).err,
                                    text |-> exc.text]))

\* What `raise cls(message)` raises for a FileOperationError subclass while
\* another exception is being handled: the TypeError of the construction,
\* or, under an interpreter that leaves the error of the keyword merge in
\* place there (CPython 3.11), KeyError.
KeywordClashErrors == {"TypeError", "KeyError"}

\* The except clauses of download_file: FileNotFoundError and
\* FileDownloadError are re-raised, any other exception is replaced by
\* FileDownloadError, whose construction fails with clash.
download_file_handlers(r, clash) ==
    IF r.ok \/ r.err \in {"FileNotFoundError", "FileDownloadError"}
    THEN r
    ELSE [Throw("FileDownloadError") EXCEPT !.err = clash]

\* The block of download_file inside the boundary.
download_file_block(file_name, scan, binary) ==
    IF Falsy(find_file_url(file_name, scan))
    THEN Outcome(RaisedInBoundary([kind |-> "FileNotFoundError",
                                   text |-> << >>]),
                 LoadAndExecute("find_file_url", scan))
    ELSE IF binary.kind \in {"ClientRequestException", "Exception"}
    THEN Outcome(RaisedInBoundary([kind |-> binary.kind,
                                   text |-> binary.text]),
                 LoadAndExecute("find_file_url", scan) \o OpenBinary(FALSE))
    ELSE IF binary.kind # "ok" \/ binary.data = << >>
    THEN \* not response or not response.content
         Outcome(RaisedInBoundary([kind |-> "FileDownloadError",
                                   text |-> << >>]),
                 LoadAndExecute("find_file_url", scan)
                     \o OpenBinary(binary.kind = "ok"))
    ELSE Outcome(Return(binary.data),
                 LoadAndExecute("find_file_url", scan) \o OpenBinary(TRUE))

\* download_file: the guard, the validators, then log_performance around
\* the boundary, all inside the try of the except clauses.
download_file(f, library_title, file_name, scan, binary, clash) ==
    Bind(validate_library_name(library_title), LAMBDA vlib :
    Bind(validate_filename(file_name), LAMBDA vfile :
        IF ~ensure_connected(f)
        THEN Outcome(Throw("SharePointConnectionError"), << >>)
        ELSE IF ~vlib.ok THEN Outcome(Throw(vlib.err), << >>)
        ELSE IF ~vfile.ok THEN Outcome(Throw(vfile.err), << >>)
        ELSE IF ~log_performance_enter.ok
        THEN Outcome(download_file_handlers(Throw(log_performance_enter.err),
                                            clash),
                     << >>)
        ELSE Bind(download_file_block(vfile.val, scan, binary), LAMBDA b :
                 Outcome(download_file_handlers(b.result, clash), b.tlog))))

(***************************************************************************)
(* str() of a value of the remote store.                                   *)
(***************************************************************************)
DigitChars == <<"0","1","2","3","4","5","6","7","8","9">>

RECURSIVE IntToStr(_)
IntToStr(n) ==
    IF n < 10 THEN <<DigitChars[n + 1]>>
    ELSE IntToStr(n \div 10) \o <<DigitChars[(n % 10) + 1]>>

RECURSIVE Repr(_)
\* repr(v); a dict is written key by key (the sample dicts have at most
\* one key, so the order of the keys does not show)
Repr(x) ==
    CASE x.t = "str"  -> <<"'">> \o x.v \o <<"'">>
      [] x.t = "int"  -> IntToStr(x.v)
      [] x.t = "none" -> <<"N","o","n","e">>
      [] x.t = "dict" ->
            IF DOMAIN x.v = {} THEN <<"{","}">>
            ELSE LET k == CHOOSE key \in DOMAIN x.v : TRUE
                 IN  <<"{", "'">> \o k \o <<"'", ":", " ">> \o Repr(x.v[k])
                     \o <<"}">>

\* str(v)
PyStr(x) == IF x.t = "str" THEN x.v ELSE Repr(x)

(***************************************************************************)
(* list_items                                                              *)
(***************************************************************************)
\* every (field, value) of the filters is contained, lower-cased, in the
\* lower-cased str() of the item's field ("" when the field is missing)
MatchesFilters(item, filters) ==
    \A field \in DOMAIN filters :
        Contains(Lower(PyStr(Get(item, field, StrV(<< >>)))),
                 Lower(filters[field]))

\* The block of list_items inside the boundary; filters is None (<< >>) or
\* a dict of strings (<<d>>).
list_items_block(filters, resp) ==
    IF resp.kind # "ok"
    THEN Outcome(Throw(handle_sharepoint_errors(ItemFetchError(resp))),
                 LoadAndExecute("items", resp))
    ELSE IF filters # << >> /\ DOMAIN filters[1] # {}
    THEN Outcome(Return(SelectSeq(resp.data,
                     LAMBDA p : MatchesFilters(p, filters[1]))),
                 LoadAndExecute("items", resp))
    ELSE Outcome(Return(resp.data), LoadAndExecute("items", resp))

\* list_items: the guard, the validator, then log_performance around the
\* boundary.
list_items(f, list_title, filters, resp) ==
    Bind(validate_library_name(list_title), LAMBDA vlist :
        IF ~ensure_connected(f)
        THEN Outcome(Throw("SharePointConnectionError"), << >>)
        ELSE IF ~vlist.ok THEN Outcome(Throw(vlist.err), << >>)
        ELSE IF ~log_performance_enter.ok
        THEN Outcome(Throw(log_performance_enter.err), << >>)
        ELSE list_items_block(filters, resp))

(***************************************************************************)
(* search_list_items                                                       *)
(***************************************************************************)
RECURSIVE Split(_, _)
\* s.split(sep) for a one-character separator
Split(str, sep) ==
    Bind(str, LAMBDA s :
        Bind(Find(s, sep), LAMBDA at :
            IF at = 0 THEN <<s>>
            ELSE <<SubSeq(s, 1, at - 1)>> \o Split(From(s, at + 1), sep)))

\* field_mapping.get(field.lower(), field)
MappedField(field) ==
    Bind(Lower(field), LAMBDA lowered :
        CASE lowered = <<"s","t","a","t","u","s">>      -> <<"S","t","a","t","u","s">>
          [] lowered = <<"a","s","s","i","g","n","e","d"," ","t","o">> -> <<"A","s","s","i","g","n","e","d","T","o">>
          [] lowered = <<"a","s","s","i","g","n","e","d">>    -> <<"A","s","s","i","g","n","e","d","T","o">>
          [] lowered = <<"t","i","t","l","e">>       -> <<"T","i","t","l","e">>
          [] lowered = <<"d","u","e"," ","d","a","t","e">>    -> <<"D","u","e","D","a","t","e">>
          [] lowered = <<"p","r","i","o","r","i","t","y">>    -> <<"P","r","i","o","r","i","t","y">>
          [] lowered = <<"c","a","t","e","g","o","r","y">>    -> <<"C","a","t","e","g","o","r","y">>
          [] OTHER                     -> field)

RECURSIVE ParseParts(_, _)
\* the loop over the comma-separated parts, a later part replacing an
\* earlier one for the same field
ParseParts(parts, filters) ==
    IF parts = << >> THEN filters
    ELSE Bind(Head(parts), LAMBDA part :
         Bind(Find(part, ":"), LAMBDA colon :
             IF colon = 0 THEN ParseParts(Tail(parts), filters)
             ELSE ParseParts(Tail(parts),
                      (MappedField(Strip(SubSeq(part, 1, colon - 1)))
                           :> Strip(From(part, colon + 1))) @@ filters)))

\* _parse_search_query
parse_search_query(query_text) ==
    IF Find(query_text, ":") > 0
    THEN ParseParts(Split(query_text, ","), EmptyDict)
    ELSE EmptyDict

(***************************************************************************)
(* The result shaper: _clean_list_item_data.                               *)
(***************************************************************************)
IsDigits(s) == \A i \in 1..Len(s) : s[i] \in Digits

DigitValue(c) == CHOOSE d \in 0..9 : DigitChars[d + 1] = c

RECURSIVE ToInt(_)
ToInt(str) ==
    Bind(str, LAMBDA s :
        IF s = << >> THEN 0
        ELSE 10 * ToInt(SubSeq(s, 1, Len(s) - 1)) + DigitValue(s[Len(s)]))

RECURSIVE ReplaceZ(_)
\* value.replace("Z", "+00:00")
ReplaceZ(s) ==
    IF s = << >> THEN << >>
    ELSE IF Head(s) = "Z" THEN <<"+","0","0",":","0","0">> \o ReplaceZ(Tail(s))
    ELSE <<Head(s)>> \o ReplaceZ(Tail(s))

IsLeapYear(y) == (y % 4 = 0 /\ y % 100 # 0) \/ y % 400 = 0

DaysInMonth(y, m) ==
    IF m = 2 THEN (IF IsLeapYear(y) THEN 29 ELSE 28)
    ELSE IF m \in {4, 6, 9, 11} THEN 30 ELSE 31

\* YYYY-MM-DD naming a day of the calendar
IsIsoDate(s) ==
    /\ Len(s) = 10
    /\ s[5] = "-" /\ s[8] = "-"
    /\ IsDigits(SubSeq(s, 1, 4)) /\ IsDigits(SubSeq(s, 6, 7))
    /\ IsDigits(SubSeq(s, 9, 10))
    /\ ToInt(SubSeq(s, 1, 4)) >= 1
    /\ ToInt(SubSeq(s, 6, 7)) \in 1..12
    /\ ToInt(SubSeq(s, 9, 10)) \in
           1..DaysInMonth(ToInt(SubSeq(s, 1, 4)), ToInt(SubSeq(s, 6, 7)))

\* HH, HH:MM, HH:MM:SS or HH:MM:SS.f+ within range
IsIsoClock(s) ==
    /\ Len(s) >= 2 /\ IsDigits(SubSeq(s, 1, 2)) /\ ToInt(SubSeq(s, 1, 2)) < 24
    /\ Len(s) > 2 =>
           /\ Len(s) >= 5 /\ s[3] = ":"
           /\ IsDigits(SubSeq(s, 4, 5)) /\ ToInt(SubSeq(s, 4, 5)) < 60
    /\ Len(s) > 5 =>
           /\ Len(s) >= 8 /\ s[6] = ":"
           /\ IsDigits(SubSeq(s, 7, 8)) /\ ToInt(SubSeq(s, 7, 8)) < 60
    /\ Len(s) > 8 =>
           /\ Len(s) >= 10 /\ s[9] \in {".", ","}
           /\ IsDigits(From(s, 10))

\* +HH:MM or -HH:MM within range
IsIsoOffset(s) ==
    /\ Len(s) = 6 /\ s[1] \in {"+", "-"} /\ s[4] = ":"
    /\ IsDigits(SubSeq(s, 2, 3)) /\ ToInt(SubSeq(s, 2, 3)) < 24
    /\ IsDigits(SubSeq(s, 5, 6)) /\ ToInt(SubSeq(s, 5, 6)) < 60

\* datetime.fromisoformat accepts s (a date, one separator character, a
\* clock time and an optional UTC offset, in the extended format)
FromIsoFormatOk(str) ==
    \E s \in {str} :
        /\ Len(s) > 10
        /\ IsIsoDate(SubSeq(s, 1, 10))
        /\ \E time \in {From(s, 12)} :
               \E sign \in {IF Find(time, "+") > 0 THEN Find(time, "+")
                            ELSE Find(time, "-")} :
                   IF sign = 0 THEN IsIsoClock(time)
                   ELSE /\ IsIsoClock(SubSeq(time, 1, sign - 1))
                        /\ IsIsoOffset(From(time, sign))

\* dt.strftime("%Y-%m-%d"): the year is written without leading zeros
FormatDate(s) == IntToStr(ToInt(SubSeq(s, 1, 4))) \o SubSeq(s, 5, 10)

\* the display value of one non-None field
CleanValue(x) ==
    CASE x.t = "dict" ->
            IF K_Title \in DOMAIN x.v THEN x.v[K_Title] ELSE StrV(PyStr(x))
      [] x.t = "str" ->
            IF Find(x.v, "T") > 0 /\ Len(x.v) > 10
            THEN Bind(ReplaceZ(x.v), LAMBDA iso :
                     IF FromIsoFormatOk(iso) THEN StrV(FormatDate(iso)) ELSE x)
            ELSE x
      [] OTHER -> StrV(PyStr(x))

\* display_fields: internal name, display name
DisplayFields ==
    << <<<<"T","i","t","l","e">>, <<"T","i","t","l","e">>>>,
       <<<<"A","s","s","i","g","n","e","d","T","o">>, <<"A","s","s","i","g","n","e","d"," ","T","o">>>>,
       <<<<"S","t","a","t","u","s">>, <<"S","t","a","t","u","s">>>>,
       <<<<"D","u","e","D","a","t","e">>, <<"D","u","e"," ","D","a","t","e">>>>,
       <<<<"P","r","i","o","r","i","t","y">>, <<"P","r","i","o","r","i","t","y">>>>,
       <<<<"C","a","t","e","g","o","r","y">>, <<"C","a","t","e","g","o","r","y">>>>,
       <<<<"C","r","e","a","t","e","d">>, <<"C","r","e","a","t","e","d">>>>,
       <<<<"M","o","d","i","f","i","e","d">>, <<"M","o","d","i","f","i","e","d">>>>,
       <<<<"A","u","t","h","o","r">>, <<"A","u","t","h","o","r">>>> >>

\* _clean_list_item_data
clean_list_item_data(item_data) ==
    Bind({i \in 1..Len(DisplayFields) :
              Get(item_data, DisplayFields[i][1], NoneValue).t # "none"},
         LAMBDA present :
             IF present = {} /\ K_Title \in DOMAIN item_data
             THEN (K_Title :> item_data[K_Title])
             ELSE [name \in {DisplayFields[i][2] : i \in present} |->
                       CleanValue(item_data[
                           DisplayFields[CHOOSE j \in present :
                               DisplayFields[j][2] = name][1]])])

\* the item matches: by the parsed field filters when there are any,
\* otherwise when some string field contains the query
ShouldInclude(item, search_filters, query_lower) ==
    IF DOMAIN search_filters # {}
    THEN MatchesFilters(item, search_filters)
    ELSE \E key \in DOMAIN item :
             item[key].t = "str" /\ Contains(Lower(item[key].v), query_lower)

\* The block of search_list_items inside the boundary.
search_list_items_block(query, resp) ==
    IF resp.kind # "ok"
    THEN Outcome(Throw(handle_sharepoint_errors(
                     [kind |-> resp.kind, text |-> resp.text])),
                 LoadAndExecute("items", resp))
    ELSE Bind(<<parse_search_query(query), Lower(query)>>, LAMBDA q :
         Bind(SelectSeq(resp.data, LAMBDA p : ShouldInclude(p, q[1], q[2])),
              LAMBDA found :
             Outcome(Return(Limit([i \in 1..Len(found) |->
                                       clean_list_item_data(found[i])])),
                     LoadAndExecute("items", resp))))

\* search_list_items: the guard, the validators, then log_performance
\* around the boundary.
search_list_items(f, list_title, query_text, resp) ==
    Bind(validate_library_name(list_title), LAMBDA vlist :
    Bind(validate_search_query(query_text), LAMBDA vquery :
        IF ~ensure_connected(f)
        THEN Outcome(Throw("SharePointConnectionError"), << >>)
        ELSE IF ~vlist.ok THEN Outcome(Throw(vlist.err), << >>)
        ELSE IF ~vquery.ok THEN Outcome(Throw(vquery.err), << >>)
        ELSE IF ~log_performance_enter.ok
        THEN Outcome(Throw(log_performance_enter.err), << >>)
        ELSE search_list_items_block(vquery.val, resp)))

\* A get_connection_info that counts uptime from zero when no connection
\* time is set.
get_connection_info_always_uptime(f, now) ==
    [is_connected    |-> f.is_connected,
     site_url        |-> f.site_url,
     connection_time |-> f.connection_time,
     uptime_seconds  |-> IF f.connection_time # << >>
                         THEN <<now - f.connection_time[1]>>
                         ELSE <<now>>]

\* get_connection_info
get_connection_info(f, now) ==
    [is_connected    |-> f.is_connected,
     site_url        |-> f.site_url,
     connection_time |-> f.connection_time,
     uptime_seconds  |-> IF f.connection_time # << >>
                         THEN <<now - f.connection_time[1]>>
                         ELSE << >>]

(***************************************************************************)
(* The remote store's answers and the callers' arguments in the model.     *)
(***************************************************************************)
LibDocuments ==
    (K_Title :> StrV(<<"D","o","c","u","m","e","n","t","s">>)) @@ (K_BaseTemplate :> IntV(101))
    @@ (K_ItemCount :> IntV(2))

ListTasks == (K_Title :> StrV(<<"T","a","s","k","s">>)) @@ (K_BaseTemplate :> IntV(100))

LibBare == (K_BaseTemplate :> IntV(101))

ListsResponses ==
    {OkResponse(<<LibDocuments, ListTasks, LibBare>>)}
    \cup Failures

DocPolicy ==
    (K_FileLeafRef :> StrV(<<"H","R","_","P","o","l","i","c","y",".","d","o","c","x">>))
    @@ (K_FileRef :> StrV(<<"/","d","/","H","R","_","P","o","l","i","c","y",".","d","o","c","x">>))
    @@ (K_Editor :> DictV((K_Title :> StrV(<<"A","n","n">>))))
    @@ (K_File_x0020_Size :> IntV(5))
    @@ (K_Modified :> StrV(<<"2","0","2","4","-","0","7","-","0","9","T","1","2",":","3","4",":","0","0","Z">>))

DocNotes == (K_FileLeafRef :> StrV(<<"n","o","t","e","s",".","t","x","t">>))

DocBare == EmptyDict

TaskBadge ==
    (K_Title :> StrV(<<"B","a","d","g","e">>)) @@ (<<"S","t","a","t","u","s">> :> StrV(<<"P","e","n","d","i","n","g">>))
    @@ (<<"A","s","s","i","g","n","e","d","T","o">> :> DictV((K_Title :> StrV(<<"A","l","i","c","e">>))))
    @@ (<<"D","u","e","D","a","t","e">> :> StrV(<<"2","0","2","4","-","0","7","-","0","9","T","1","2",":","3","4",":","0","0","Z">>))

TaskLaptop ==
    (K_Title :> StrV(<<"L","a","p","t","o","p"," ","p","o","l","i","c","y">>)) @@ (<<"S","t","a","t","u","s">> :> StrV(<<"D","o","n","e">>))
    @@ (<<"P","r","i","o","r","i","t","y">> :> IntV(2))

\* Item i of a library of MaxItems items: every item but the second is named
\* policy<i>, as a document (FileLeafRef) and as a list item (Title).
CrowdItem(i) ==
    Bind(IF i = 2 THEN <<"m","e","m","o">> ELSE <<"p","o","l","i","c","y">> \o IntToStr(i), LAMBDA name :
        (K_FileLeafRef :> StrV(name)) @@ (K_Title :> StrV(name))
        @@ (K_Id :> IntV(i)))

Crowd == [i \in 1..MaxItems |-> CrowdItem(i)]

ItemResponses ==
    {OkResponse(<<DocPolicy, DocNotes, DocBare>>),
     OkResponse(<<TaskBadge, TaskLaptop>>),
     OkResponse(Crowd)}
    \cup Failures

\* File.open_binary: content, no content, a response that is not ok, or an
\* exception
BinaryResponses ==
    {OkResponse(<<"%", "P", "D", "F">>), OkResponse(<< >>),
     [kind |-> "not_ok", text |-> <<"4","0","4">>, data |-> << >>]}
    \cup Failures

LibraryInputs == {<< >>, <<" ","D","o","c","u","m","e","n","t","s"," ">>, <<"a","/","b">>}

QueryInputs == {<< >>, <<" ","P","o","l","i","c","y"," ">>, <<"a","<","b">>, <<"S","t","a","t","u","s",":"," ","p","e","n","d">>}

FileInputs == {<<"H","R","_","P","o","l","i","c","y",".","d","o","c","x"," ">>, <<"n","o","t","e","s",".","t","x","t">>, <<"C","O","N",".","t","x","t">>}

FilterInputs == {<< >>, <<EmptyDict>>, <<(<<"S","t","a","t","u","s">> :> <<"P","E","N","D">>)>>}

(***************************************************************************)
(* The read operations as actions on the client.                           *)
(***************************************************************************)
\* An invocation, on a client whose fields are f, that leaves them alone.
Invoke(name, args, f, outcome) ==
    \E o \in {outcome} :
        /\ op # "none"
        /\ op' = name
        /\ inp' = args
        /\ pre' = f
        /\ result' = o.result
        /\ tlog' = o.tlog
        /\ UNCHANGED <<ctx, site_url, is_connected, connection_time, clock,
                       authed>>

ListDocumentLibraries ==
    \E f \in {Fields} :
        \E resp \in Answers(ensure_connected(f), ListsResponses) :
            Invoke("list_document_libraries", [resps |-> <<resp>>], f,
                   list_document_libraries(f, resp))

SearchDocuments ==
    \E f \in {Fields} :
        \E lib \in LibraryInputs, query \in QueryInputs :
            \E resp \in Answers(/\ ensure_connected(f)
                                /\ validate_library_name(lib).ok
                                /\ validate_search_query(query).ok,
                                ItemResponses) :
                Invoke("search_documents",
                       [library_title |-> lib, query_text |-> query,
                        resps |-> <<resp>>], f,
                       search_documents(f, lib, query, resp))

DownloadFile ==
    \E f \in {Fields} :
        \E lib \in LibraryInputs, file \in FileInputs :
            \E scan \in Answers(/\ ensure_connected(f)
                                /\ validate_library_name(lib).ok
                                /\ validate_filename(file).ok,
                                ItemResponses) :
                \E binary \in Answers(/\ ensure_connected(f)
                                      /\ validate_library_name(lib).ok
                                      /\ validate_filename(file).ok
                                      /\ ~Falsy(find_file_url(
                                             validate_filename(file).val,
                                             scan)),
                                      BinaryResponses) :
                    \E clash \in IF /\ ensure_connected(f)
                                    /\ validate_library_name(lib).ok
                                    /\ validate_filename(file).ok
                                 THEN KeywordClashErrors
                                 ELSE {"TypeError"} :
                        Invoke("download_file",
                               [library_title |-> lib, file_name |-> file,
                                resps |-> <<scan, binary>>, clash |-> clash],
                               f,
                               download_file(f, lib, file, scan, binary,
                                             clash))

ListItems ==
    \E f \in {Fields} :
        \E lib \in LibraryInputs, filters \in FilterInputs :
            \E resp \in Answers(/\ ensure_connected(f)
                                /\ validate_library_name(lib).ok,
                                ItemResponses) :
                Invoke("list_items",
                       [list_title |-> lib, filters |-> filters,
                        resps |-> <<resp>>], f,
                       list_items(f, lib, filters, resp))

SearchListItems ==
    \E f \in {Fields} :
        \E lib \in LibraryInputs, query \in QueryInputs :
            \E resp \in Answers(/\ ensure_connected(f)
                                /\ validate_library_name(lib).ok
                                /\ validate_search_query(query).ok,
                                ItemResponses) :
                Invoke("search_list_items",
                       [list_title |-> lib, query_text |-> query,
                        resps |-> <<resp>>], f,
                       search_list_items(f, lib, query, resp))

GetConnectionInfo ==
    \E f \in {Fields}, now \in {clock} :
        Invoke("get_connection_info", << >>, f,
               Outcome(Return(get_connection_info(f, now)), << >>))

Next ==
    \/ NewClient
    \/ Reconnect
    \/ disconnect
    \/ context_exit
    \/ ListDocumentLibraries
    \/ SearchDocuments
    \/ DownloadFile
    \/ ListItems
    \/ SearchListItems
    \/ GetConnectionInfo
    \/ Tick

Spec == Init /\ [][Next]_vars

(***************************************************************************)
(* A client that holds a session.  No connection attempt of the client     *)
(* reaches the assignments of lines 123-133 (log_performance fails on      *)
(* entry), so what the operations do on a Connected client is examined on  *)
(* a client object whose four fields are as those lines leave them.        *)
(***************************************************************************)
\* The fields as the block of _connect_with_credentials assigns them.
HeldSession ==
    connected_session(new_context(ValidUrl, <<<<"a","p","p","-","1">>, <<"0","1","2","3","4","5","6","7","8","9">>>>),
                      ValidUrl, 1)

InitSession ==
    /\ ctx = HeldSession.ctx
    /\ site_url = HeldSession.site_url
    /\ is_connected = HeldSession.is_connected
    /\ connection_time = HeldSession.connection_time
    /\ clock = 1
    /\ op = "held"
    /\ inp = << >>
    /\ pre = NoSession
    /\ result = Return(<< >>)
    /\ tlog = << >>
    /\ authed = TRUE

SpecSession == InitSession /\ [][Next]_vars

(***************************************************************************)
(* The blocks on their own: _handle_sharepoint_errors applied to an        *)
(* exception whose text is a run of marker words, and the block each       *)
(* operation runs inside the boundary applied to the transport's answers,  *)
(* on a client that holds a session.                                       *)
(***************************************************************************)
MaxMarkers == 3

\* The words an error text is made of; "40" followed by "401" reads
\* "40401", which holds "404" as well as "401".
Markers == {<<"4","0","1">>, <<"4","0","3">>, <<"4","0","4">>, <<"t","i","m","e","o","u","t">>, <<"T","i","m","e","O","u","t">>, <<"4","0">>}

RECURSIVE Concat(_)
Concat(words) ==
    IF words = << >> THEN << >> ELSE Head(words) \o Concat(Tail(words))

ErrorTexts ==
    {Concat(w) : w \in UNION {[1..n -> Markers] : n \in 0..MaxMarkers}}

\* The transport's exception and any other exception
ExceptionKinds == {"ClientRequestException", "Exception"}

InitBoundary ==
    /\ ctx = HeldSession.ctx
    /\ site_url = HeldSession.site_url
    /\ is_connected = HeldSession.is_connected
    /\ connection_time = HeldSession.connection_time
    /\ clock = 1
    /\ op = "none"
    /\ inp = << >>
    /\ pre = NoSession
    /\ result = Return(<< >>)
    /\ tlog = << >>
    /\ authed = TRUE

\* A block run on a client whose fields are f: no block assigns a field.
RunBlock(name, args, f, outcome) ==
    \E o \in {outcome} :
        /\ op' = name
        /\ inp' = args
        /\ pre' = f
        /\ result' = o.result
        /\ tlog' = o.tlog
        /\ UNCHANGED <<ctx, site_url, is_connected, connection_time, clock,
                       authed>>

\* An exception leaves the with block of _handle_sharepoint_errors.
Classify ==
    \E f \in {Fields} :
        /\ op = "none"
        /\ \E exc \in [kind : ExceptionKinds, text : ErrorTexts] :
               RunBlock("classify", exc, f,
                        Outcome(Throw(handle_sharepoint_errors(exc)), << >>))

ListDocumentLibrariesBlock ==
    \E f \in {Fields} :
        /\ op = "none"
        /\ \E resp \in ListsResponses :
               RunBlock("list_document_libraries_block", [resps |-> <<resp>>],
                        f, list_document_libraries_block(resp))

\* The queries and file names the validators hand to the blocks.
ValidatedQueries ==
    {validate_search_query(q).val :
         q \in {x \in QueryInputs : validate_search_query(x).ok}}

ValidatedFilenames ==
    {validate_filename(n).val :
         n \in {x \in FileInputs : validate_filename(x).ok}}

SearchDocumentsBlock ==
    \E f \in {Fields} :
        /\ op = "none"
        /\ \E query \in ValidatedQueries, resp \in ItemResponses :
               RunBlock("search_documents_block",
                        [query |-> query, resps |-> <<resp>>], f,
                        search_documents_block(query, resp))

DownloadFileBlock ==
    \E f \in {Fields} :
        /\ op = "none"
        /\ \E file \in ValidatedFilenames, scan \in ItemResponses :
               \E binary \in Answers(~Falsy(find_file_url(file, scan)),
                                     BinaryResponses) :
                   RunBlock("download_file_block",
                            [file_name |-> file, resps |-> <<scan, binary>>], f,
                            download_file_block(file, scan, binary))

ListItemsBlock ==
    \E f \in {Fields} :
        /\ op = "none"
        /\ \E filters \in FilterInputs, resp \in ItemResponses :
               RunBlock("list_items_block",
                        [filters |-> filters, resps |-> <<resp>>], f,
                        list_items_block(filters, resp))

SearchListItemsBlock ==
    \E f \in {Fields} :
        /\ op = "none"
        /\ \E query \in ValidatedQueries, resp \in ItemResponses :
               RunBlock("search_list_items_block",
                        [query |-> query, resps |-> <<resp>>], f,
                        search_list_items_block(query, resp))

NextBoundary ==
    \/ Classify
    \/ ListDocumentLibrariesBlock
    \/ SearchDocumentsBlock
    \/ DownloadFileBlock
    \/ ListItemsBlock
    \/ SearchListItemsBlock

SpecBoundary == InitBoundary /\ [][NextBoundary]_vars

(***************************************************************************)
(* File previews (src/src/utils/file_utils.py).  A file is None (present   *)
(* is FALSE) or a BytesIO of size bytes whose content the parser reads     *)
(* (readable) or refuses.                                                  *)
(***************************************************************************)
\* max_size is << >> for None.
validate_file_size_from_zero(file_size, max_size) ==
    Bind(IF max_size = << >> THEN MAX_FILE_SIZE ELSE max_size[1],
         LAMBDA limit :
             IF file_size < 0 THEN Raise("ValidationError")
             ELSE IF file_size > limit THEN Raise("ValidationError")
             ELSE [ok |-> TRUE, val |-> file_size])

validate_file_size(file_size, max_size) ==
    Bind(IF max_size = << >> THEN MAX_FILE_SIZE ELSE max_size[1],
         LAMBDA limit :
             IF file_size < 0 THEN Raise("ValidationError")
             ELSE IF file_size = 0 THEN Raise("ValidationError")
             ELSE IF file_size > limit THEN Raise("ValidationError")
             ELSE [ok |-> TRUE, val |-> file_size])

\* `except Exception as e: raise FileOperationError(...)` around the body
\* of a preview.
processing_failed(outcome) ==
    IF outcome.result.ok THEN outcome
    ELSE Outcome(Throw("FileOperationError"), outcome.tlog)

\* sep.join(parts)
RECURSIVE Join(_, _)
Join(parts, sep) ==
    IF parts = << >> THEN << >>
    ELSE IF Len(parts) = 1 THEN parts[1]
    ELSE parts[1] \o sep \o Join(Tail(parts), sep)

\* full_text[:PREVIEW_TEXT_LIMIT] + "..." for a text longer than
\* PREVIEW_TEXT_LIMIT, the text itself otherwise (lines 86-87, 153-154).
Truncated(full_text) ==
    IF Len(full_text) > PREVIEW_TEXT_LIMIT
    THEN SubSeq(full_text, 1, PREVIEW_TEXT_LIMIT) \o <<".",".",".">>
    ELSE full_text

\* text_parts of preview_pdf (lines 66-78): the text of each of the pages,
\* a page whose extraction fails or finds no text left out.
PageTexts(pages) ==
    Bind(SelectSeq(pages, LAMBDA page : ~page.fails /\ page.text # << >>),
         LAMBDA kept : [i \in 1..Len(kept) |-> kept[i].text])

\* min(max_pages, len(pdf.pages)), and range() of it
PagesToProcess(pages, max_pages) ==
    Bind(IF max_pages < Len(pages) THEN max_pages ELSE Len(pages), LAMBDA n :
        SubSeq(pages, 1, IF n < 0 THEN 0 ELSE n))

\* The body of preview_pdf inside log_performance (lines 48-91).
preview_pdf_block(file, max_pages) ==
    IF ~validate_file_size(file.size, <<MAX_PREVIEW_SIZE>>).ok
    THEN Outcome(Throw("ValidationError"), << >>)
    ELSE IF ~file.readable
    THEN Outcome(Throw("Exception"), <<"pdfplumber.open">>)
    ELSE IF file.pages = << >>
    THEN Outcome(Return(<<"P","D","F"," ","f","i","l","e"," ","a","p","p","e","a","r","s"," ","t","o"," ","b","e"," ","e","m","p","t","y">>),
                 <<"pdfplumber.open">>)
    ELSE Bind(PageTexts(PagesToProcess(file.pages, max_pages)),
              LAMBDA text_parts :
                  Outcome(Return(IF text_parts = << >>
                                 THEN <<"N","o"," ","r","e","a","d","a","b","l","e"," ","t","e","x","t"," ","f","o","u","n","d"," ","i","n"," ","P","D","F">>
                                 ELSE Truncated(Join(text_parts, <<"\n", "\n">>))),
                          <<"pdfplumber.open">>))

\* preview_pdf: the test for None, then log_performance around the body,
\* inside the try whose handler raises FileOperationError.
preview_pdf(file, max_pages) ==
    IF ~file.present THEN Outcome(Throw("FileOperationError"), << >>)
    ELSE processing_failed(
             IF ~log_performance_enter.ok
             THEN Outcome(Throw(log_performance_enter.err), << >>)
             ELSE preview_pdf_block(file, max_pages))

\* The stripped texts that are not empty (lines 133-135, 141-143).
StrippedTexts(texts) ==
    Bind([i \in 1..Len(texts) |-> Strip(texts[i])], LAMBDA stripped :
        SelectSeq(stripped, LAMBDA text : text # << >>))

\* text_parts of the tables (lines 138-145): for each row with a cell of
\* text, its cells joined by " | ".
RECURSIVE RowTexts(_)
RowTexts(rows) ==
    IF rows = << >> THEN << >>
    ELSE Bind(StrippedTexts(Head(rows)), LAMBDA row_text :
             (IF row_text = << >> THEN << >>
              ELSE <<Join(row_text, <<" ","|"," ">>)>>) \o RowTexts(Tail(rows)))

\* The body of preview_docx inside log_performance (lines 116-158); the
\* rows of the tables of the document are file.rows.
preview_docx_block(file) ==
    IF ~validate_file_size(file.size, <<MAX_PREVIEW_SIZE>>).ok
    THEN Outcome(Throw("ValidationError"), << >>)
    ELSE IF ~file.readable
    THEN Outcome(Throw("Exception"), <<"Document">>)
    ELSE IF file.paragraphs = << >>
    THEN Outcome(Return(<<"D","O","C","X"," ","f","i","l","e"," ","a","p","p","e","a","r","s"," ","t","o"," ","b","e"," ","e","m","p","t","y">>), <<"Document">>)
    ELSE Bind(StrippedTexts(file.paragraphs) \o RowTexts(file.rows),
              LAMBDA text_parts :
                  Outcome(Return(IF text_parts = << >>
                                 THEN <<"N","o"," ","r","e","a","d","a","b","l","e"," ","t","e","x","t"," ","f","o","u","n","d"," ","i","n"," ","D","O","C","X">>
                                 ELSE Truncated(Join(text_parts, <<"\n">>))),
                          <<"Document">>))

\* preview_docx: the test for None, then log_performance around the body,
\* inside the try whose handler raises FileOperationError.
preview_docx(file) ==
    IF ~file.present THEN Outcome(Throw("FileOperationError"), << >>)
    ELSE processing_failed(
             IF ~log_performance_enter.ok
             THEN Outcome(Throw(log_performance_enter.err), << >>)
             ELSE preview_docx_block(file))

\* all(cell is None or str(cell).strip() == "" for cell in row)
IsBlankRow(row) ==
    \A i \in 1..Len(row) : row[i].t = "none" \/ Strip(PyStr(row[i])) = << >>

\* processed_row: "" for None, str(cell) otherwise
ProcessedRow(row) ==
    [i \in 1..Len(row) |-> IF row[i].t = "none" THEN << >> ELSE PyStr(row[i])]

\* The loop over ws.iter_rows (lines 210-231): headers is None (<< >>) or
\* the first row kept, data the rows kept after it; rows_processed is the
\* length of data.
RECURSIVE IterRows(_, _, _, _)
IterRows(rows, max_rows, headers, data) ==
    IF rows = << >> THEN [headers |-> headers, data |-> data]
    ELSE IF Len(data) >= max_rows + 1
    THEN [headers |-> headers, data |-> data]
    ELSE IF IsBlankRow(Head(rows))
    THEN IterRows(Tail(rows), max_rows, headers, data)
    ELSE IF headers = << >>
    THEN IterRows(Tail(rows), max_rows, <<ProcessedRow(Head(rows))>>, data)
    ELSE IterRows(Tail(rows), max_rows, headers,
                  Append(data, ProcessedRow(Head(rows))))

\* A DataFrame: its column names and its rows.
DataFrame(columns, rows) == [columns |-> columns, rows |-> rows]

\* str(col).strip() if col else f"Column_{i}", i counted from 0
CleanColumns(headers) ==
    [i \in 1..Len(headers) |->
        IF headers[i] # << >> THEN Strip(headers[i])
        ELSE <<"C","o","l","u","m","n","_">> \o IntToStr(i - 1)]

\* The body of preview_xlsx inside log_performance (lines 184-248) on the
\* active worksheet of the file.
preview_xlsx_block(file, max_rows) ==
    IF ~validate_file_size(file.size, <<MAX_PREVIEW_SIZE>>).ok
    THEN Outcome(Throw("ValidationError"), << >>)
    ELSE IF ~file.readable
    THEN Outcome(Throw("Exception"), <<"load_workbook">>)
    ELSE Bind(IterRows(file.rows, max_rows, << >>, << >>), LAMBDA kept :
             Outcome(Return(
                 IF kept.headers = << >> \/ kept.headers[1] = << >>
                 THEN DataFrame(<<<<"E","r","r","o","r">>>>, <<<<<<"N","o"," ","d","a","t","a"," ","f","o","u","n","d"," ","i","n"," ","f","i","l","e">>>>>>)
                 ELSE IF kept.data = << >>
                 THEN DataFrame(kept.headers[1], << >>)
                 ELSE DataFrame(CleanColumns(kept.headers[1]), kept.data)),
                 <<"load_workbook">>))

\* preview_xlsx: the test for None, then log_performance around the body,
\* inside the try whose handler raises FileOperationError.
preview_xlsx(file, max_rows) ==
    IF ~file.present THEN Outcome(Throw("FileOperationError"), << >>)
    ELSE processing_failed(
             IF ~log_performance_enter.ok
             THEN Outcome(Throw(log_performance_enter.err), << >>)
             ELSE preview_xlsx_block(file, max_rows))

(***************************************************************************)
(* The helpers on their own: _clean_list_item_data applied to field maps   *)
(* of the remote store, the validators applied to URLs, queries, file      *)
(* names, credentials and free text, the exception constructors, and the   *)
(* file previews applied to files, beside a client that holds a session.   *)
(***************************************************************************)
\* The fields of the maps: three display fields and one that is none.
ShaperKeys == {K_Title, <<"A","s","s","i","g","n","e","d","T","o">>, <<"D","u","e","D","a","t","e">>, <<"O","w","n","e","r">>}

\* The values of the maps: text, a timestamp, text that holds a T, a
\* timestamp of no calendar day, a timestamp of the year 999, a user object,
\* an object without Title, a number, null.
ShaperValues ==
    << StrV(<<"B","a","d","g","e">>),
       StrV(<<"2","0","2","4","-","0","7","-","0","9","T","1","2",":","3","4",":","0","0","Z">>),
       StrV(<<"T","u","e","s","d","a","y"," ","t","a","s","k">>),
       StrV(<<"2","0","2","4","-","0","2","-","3","0","T","0","0",":","0","0",":","0","0">>),
       StrV(<<"0","9","9","9","-","0","1","-","0","1","T","0","0",":","0","0",":","0","0">>),
       DictV((K_Title :> StrV(<<"A","l","i","c","e">>))),
       DictV((K_Id :> IntV(7))),
       IntV(2),
       NoneValue >>

\* The sets of at most MaxFields fields a field map has.
FieldSets == {S \in SUBSET ShaperKeys : Cardinality(S) <= MaxFields}

\* The field map that gives field k the value number choice[k].
FieldMap(choice) == [k \in DOMAIN choice |-> ShaperValues[choice[k]]]

CleanListItemData ==
    \E f \in {Fields} :
        /\ op = "none"
        /\ \E S \in FieldSets :
               \E choice \in [S -> 1..Len(ShaperValues)] :
                   RunBlock("clean_list_item_data",
                            [item_data |-> FieldMap(choice)], f,
                            Outcome(Return(clean_list_item_data(
                                        FieldMap(choice))), << >>))

\* The parts absolute http and https URLs are made of in the model: the
\* scheme, the authority, the path (with a parameter on its last segment and
\* on an inner one), the query ("?" alone is an empty query) and the
\* fragment.
UrlSchemes == {<<"h","t","t","p","s">>, <<"H","T","T","P">>}

UrlAuthorities == {<<"a",".","i","o">>, <<"A",".","i","o",":","8","4","4","3">>, <<"l","o","c","a","l","h","o","s","t">>}

UrlPaths == {<< >>, <<"/","s">>, <<"/","s",";","v","=","1">>, <<"/","a",";","b","/","c">>}

UrlQueries == {<< >>, <<"?","x","=","1">>, <<"?">>}

UrlFragments == {<< >>, <<"#","t","o","p">>}

\* The URL made of the parts.
UrlOf(parts) ==
    parts.scheme \o <<":","/","/">> \o parts.authority \o parts.path \o parts.query
    \o parts.fragment

\* validate_url(url) with allow_localhost left at its default.
ValidateUrl ==
    \E f \in {Fields} :
        /\ op = "none"
        /\ \E parts \in [scheme : UrlSchemes, authority : UrlAuthorities,
                         path : UrlPaths, query : UrlQueries,
                         fragment : UrlFragments] :
               \E r \in {validate_url(UrlOf(parts), TRUE)} :
                   RunBlock("validate_url",
                            [url |-> UrlOf(parts), parts |-> parts], f,
                            Outcome(IF r.ok THEN Return(r.val)
                                    ELSE Throw(r.err), << >>))

\* The inputs validate_url is to reject or accept: a scheme (none, one of
\* http and https in either case, another one), a host (none, a remote one,
\* the three local ones), a port, a path, and the length the URL is padded
\* to with a fragment (0: as written).  The input of no characters stands
\* for the empty string and for None, which line 37 does not tell apart.
CandidateSchemes == {<< >>, <<"h","t","t","p","s">>, <<"H","T","T","P">>, <<"f","t","p">>, <<"f","i","l","e">>}

CandidateHosts ==
    {<< >>, <<"a",".","i","o">>, <<"l","o","c","a","l","h","o","s","t">>, <<"L","O","C","A","L","H","O","S","T">>, <<"1","2","7",".","0",".","0",".","1">>, <<":",":","1">>}

CandidatePorts == {<< >>, <<":","8","0","8","0">>}

CandidatePaths == {<< >>, <<"/","s">>}

CandidateLengths == {0, MAX_URL_LENGTH, MAX_URL_LENGTH + 1}

UrlCandidates ==
    [given : {TRUE}, scheme : CandidateSchemes, host : CandidateHosts,
     port : CandidatePorts, path : CandidatePaths, length : CandidateLengths]
    \cup [given : {FALSE}, scheme : {<< >>}, host : {<< >>}, port : {<< >>},
          path : {<< >>}, length : {0}]

\* The URL as written: a host holding a colon is written in brackets.
Written(c) ==
    (IF c.scheme = << >> THEN << >> ELSE c.scheme \o <<":">>) \o <<"/","/">>
    \o (IF Find(c.host, ":") > 0 THEN <<"[">> \o c.host \o <<"]">> ELSE c.host)
    \o c.port \o c.path

\* The URL of a candidate, padded with a fragment to its length.
CandidateUrl(c) ==
    IF ~c.given THEN << >>
    ELSE Bind(Written(c), LAMBDA u :
             IF c.length > Len(u)
             THEN u \o <<"#">> \o [i \in 1..(c.length - Len(u) - 1) |-> "a"]
             ELSE u)

\* validate_url(url, allow_localhost) on any input.
ValidateAnyUrl ==
    \E f \in {Fields} :
        /\ op = "none"
        /\ \E c \in UrlCandidates, allow_localhost \in BOOLEAN :
               \E url \in {CandidateUrl(c)} :
                   \E r \in {validate_url(url, allow_localhost)} :
                       RunBlock("validate_any_url",
                                [url |-> url, candidate |-> c,
                                 allow_localhost |-> allow_localhost], f,
                                Outcome(IF r.ok THEN Return(r.val)
                                        ELSE Throw(r.err), << >>))

\* White space written around an input.
Paddings == {<< >>, <<" ">>, <<" ", "\t">>}

\* The text of n letters.
Filler(n) == [i \in 1..n |-> "a"]

\* Query texts, none with white space at either end: plain ones, ones
\* holding a character of dangerous_chars, and ones holding a word of
\* sql_keywords in upper, lower and mixed case, alone and inside a word.
QueryCores ==
    {<< >>, <<"h","r"," ","p","o","l","i","c","y">>, <<"t","e","s","t","<","s","c","r","i","p","t",">">>, <<"a",">","b">>, <<"s","a","y"," ","\"","h","i","\"">>, <<"i","t","'","s">>,
     <<"a","&","b">>, <<"x",";","y">>, <<"a","|","b">>, <<"a",GraveAccent,"b">>, <<"a"," ","S","E","L","E","C","T"," ","b">>, <<"a"," ","s","e","l","e","c","t"," ","b">>,
     <<"i","n","s","e","r","t">>, <<"U","p","d","a","t","e">>, <<"d","e","L","e","t","e">>, <<"d","r","o","p"," ","i","t">>, <<"u","n","i","o","n","s">>,
     <<"e","x","e","c","u","t","i","v","e">>}

\* The lengths a text is filled to with letters (0: as written).
QueryLengths == {0, MAX_QUERY_LENGTH, MAX_QUERY_LENGTH + 1}

\* The text of a candidate without the white space around it.
CoreText(c) ==
    IF c.length > Len(c.core) THEN c.core \o Filler(c.length - Len(c.core))
    ELSE c.core

\* The input of a candidate.
Padded(c) == c.pad \o CoreText(c) \o c.pad

\* validate_search_query(query)
ValidateSearchQuery ==
    \E f \in {Fields} :
        /\ op = "none"
        /\ \E c \in [pad : Paddings, core : QueryCores, length : QueryLengths] :
               \E r \in {validate_search_query(Padded(c))} :
                   RunBlock("validate_search_query",
                            [query |-> Padded(c), candidate |-> c], f,
                            Outcome(IF r.ok THEN Return(r.val)
                                    ELSE Throw(r.err), << >>))

\* File names in parts: a stem without dots and without white space at
\* either end (plain, reserved in upper, lower and mixed case, close to a
\* reserved one, holding a character of invalid_chars), an inner suffix and
\* an extension.
FileStems ==
    {<< >>, <<"d","o","c","u","m","e","n","t">>, <<"C","O","N">>, <<"c","o","n">>, <<"P","r","n">>, <<"a","u","x">>, <<"N","U","L">>,
     <<"C","O","M","1">>, <<"c","o","m","9">>, <<"L","P","T","1">>, <<"l","p","t","9">>, <<"C","O","M","0">>, <<"C","O","N","S">>, <<"a","/","b">>,
     <<"a","\\","b">>, <<"a",":","b">>, <<"a","<","b">>, <<"a",">","b">>, <<"a","\"","b">>, <<"a","|","b">>, <<"x","?">>, <<"x","*">>}

FileInners == {<< >>, <<".","t","a","r">>}

FileExtensions == {<< >>, <<".","t","x","t">>, <<".">>}

\* The lengths a stem is filled to with letters (0: as written).
FileLengths == {0, MAX_FILENAME_LENGTH, MAX_FILENAME_LENGTH + 1}

\* The stem of a candidate, filled so that the name has its length.
FilledStem(c) ==
    Bind(Len(c.stem) + Len(c.inner) + Len(c.ext), LAMBDA written :
        IF c.length > written THEN c.stem \o Filler(c.length - written)
        ELSE c.stem)

\* The name of a candidate without the white space around it.
NameText(c) == FilledStem(c) \o c.inner \o c.ext

\* validate_filename(filename)
ValidateFilename ==
    \E f \in {Fields} :
        /\ op = "none"
        /\ \E c \in [pad : Paddings, stem : FileStems, inner : FileInners,
                     ext : FileExtensions, length : FileLengths] :
               \E name \in {c.pad \o NameText(c) \o c.pad} :
                   \E r \in {validate_filename(name)} :
                       RunBlock("validate_filename",
                                [filename |-> name, candidate |-> c], f,
                                Outcome(IF r.ok THEN Return(r.val)
                                        ELSE Throw(r.err), << >>))

\* Client ids and secrets without white space at either end: no id, a plain
\* id, ids of the GUID shape in either case, an id one character off that
\* shape; no secret, secrets shorter than MIN_SECRET_LENGTH, of that length
\* (one with a space inside) and longer.
IdCores ==
    {<< >>, <<"a","p","p","-","1">>, <<"1","2","3","4","5","6","7","8","-","1","2","3","4","-","1","2","3","4","-","1","2","3","4","-","1","2","3","4","5","6","7","8","9","0","1","2">>,
     <<"A","B","C","D","E","F","0","1","-","2","3","a","b","-","c","d","e","f","-","4","5","6","7","-","8","9","a","b","c","d","e","f","0","1","2","3">>,
     <<"1","2","3","4","5","6","7","8","-","1","2","3","4","-","1","2","3","4","-","1","2","3","4","-","1","2","3","4","5","6","7","8","9","0","1","g">>}

SecretCores ==
    {<< >>, <<"s","h","o","r","t">>, <<"1","2","3","4","5","6","7","8","9">>, <<"0","1","2","3","4","5","6","7","8","9">>, <<"0","1","2","3","4","5","6","7"," ","9">>,
     <<"v","e","r","y","_","l","o","n","g","_","s","e","c","r","e","t","_","k","e","y","_","h","e","r","e">>}

HexChars == Digits \cup {"a","b","c","d","e","f","A","B","C","D","E","F"}

\* guid_pattern.match(client_id): 8-4-4-4-12 hexadecimal digits.
guid_pattern_match(client_id) ==
    /\ Len(client_id) = 36
    /\ \A i \in 1..36 :
           IF i \in {9, 14, 19, 24} THEN client_id[i] = "-"
           ELSE client_id[i] \in HexChars

\* validate_credentials(client_id, client_secret); warned tells whether the
\* warning about the shape of the id (line 295) was logged.
ValidateCredentials ==
    \E f \in {Fields} :
        /\ op = "none"
        /\ \E c \in [id_pad : Paddings, id : IdCores,
                     secret_pad : Paddings, secret : SecretCores] :
               \E client_id \in {c.id_pad \o c.id \o c.id_pad},
                  client_secret \in {c.secret_pad \o c.secret \o c.secret_pad} :
                   \E r \in {validate_credentials(client_id, client_secret)} :
                       RunBlock("validate_credentials",
                                [client_id |-> client_id,
                                 client_secret |-> client_secret,
                                 candidate |-> c], f,
                                Outcome(IF r.ok
                                        THEN Return([client_id |-> r.val[1],
                                                     client_secret |-> r.val[2],
                                                     warned |-> ~guid_pattern_match(r.val[1])])
                                        ELSE Throw(r.err), << >>))

\* The pieces free texts are made of: plain text (one with a tab inside),
\* tags (one with a line break inside), control characters of the ranges
\* C0 (NUL, DEL) and C1 (NEL), and nothing.
TextPieces ==
    {[kind |-> "text", chars |-> << >>],
     [kind |-> "text", chars |-> <<"H","e","l","l","o">>],
     [kind |-> "text", chars |-> <<"a", "\t", "b">>],
     [kind |-> "text", chars |-> Filler(MAX_QUERY_LENGTH - 2)],
     [kind |-> "tag", chars |-> <<"<","b",">">>],
     [kind |-> "tag", chars |-> <<"<","/","s","c","r","i","p","t",">">>],
     [kind |-> "tag", chars |-> <<"<", "a", "\n", "b", ">">>],
     [kind |-> "control", chars |-> <<"NUL">>],
     [kind |-> "control", chars |-> <<"DEL">>],
     [kind |-> "control", chars |-> <<"NEL">>]}

\* The max_length arguments: None and a small limit.
MaxLengthInputs == {<< >>, <<SmallLimit>>}

\* validate_user_input(text, max_length) on the text of three pieces.
ValidateUserInput ==
    \E f \in {Fields} :
        /\ op = "none"
        /\ \E c \in [1..3 -> TextPieces], max_length \in MaxLengthInputs :
               \E text \in {c[1].chars \o c[2].chars \o c[3].chars} :
                   /\ text # << >>
                   /\ \E r \in {validate_user_input(text, max_length)} :
                          RunBlock("validate_user_input",
                                   [text |-> text, max_length |-> max_length,
                                    pieces |-> c], f,
                                   Outcome(IF r.ok THEN Return(r.val)
                                           ELSE Throw(r.err), << >>))

\* The exception classes of the taxonomy.
TaxonomyClasses ==
    {"SharePointConnectionError", "SharePointAuthenticationError",
     "SharePointResourceNotFoundError", "SharePointTimeoutError",
     "ValidationError", "SecurityError", "ConfigurationError",
     "FileOperationError"} \cup FileOperationSubclasses

\* cls(message): the value constructed, with its error_code, or the
\* exception its constructor raises.
ConstructError ==
    \E f \in {Fields} :
        /\ op = "none"
        /\ \E cls \in TaxonomyClasses :
               \E e \in {Raise(cls)} :
                   RunBlock("construct", [cls |-> cls], f,
                            Outcome(IF e.err = cls
                                    THEN Return([class |-> cls,
                                                 error_code |-> e.code])
                                    ELSE Throw(e.err), << >>))

\* The rows of a worksheet: two rows with data and two blank ones (all
\* cells None; a cell of white space).
SheetRows ==
    {<<StrV(<<"N","a","m","e">>), NoneValue>>, <<StrV(<<"x">>), StrV(<<"7">>)>>,
     <<NoneValue, NoneValue>>, <<StrV(<<" ">>), NoneValue>>}

Sheets == UNION {[1..n -> SheetRows] : n \in 0..MaxSheetRows}

\* The sizes of files: none, one byte, a usual size, the ceiling of the
\* previews and one byte more.
FileSizes == {0, 1, 4096, MAX_PREVIEW_SIZE, MAX_PREVIEW_SIZE + 1}

\* The files handed to preview_xlsx: None, readable workbooks of a usual
\* size, and files of every size, readable or not.
NoFile == [present |-> FALSE, size |-> 0, readable |-> FALSE, rows |-> << >>]

XlsxFiles ==
    {NoFile}
    \cup [present : {TRUE}, size : {4096}, readable : {TRUE}, rows : Sheets]
    \cup [present : {TRUE}, size : FileSizes, readable : BOOLEAN,
          rows : {<<<<StrV(<<"N","a","m","e">>), NoneValue>>>>}]

RowLimits == 0..MaxRows

\* The pages of a PDF: pages with text (short, of PREVIEW_TEXT_LIMIT
\* characters, one fewer and one more), a page without text and a page
\* whose extraction fails.
PdfPages ==
    {[fails |-> FALSE, text |-> <<"I","n","t","r","o">>],
     [fails |-> FALSE, text |-> << >>],
     [fails |-> TRUE, text |-> << >>],
     [fails |-> FALSE, text |-> Filler(PREVIEW_TEXT_LIMIT - 1)],
     [fails |-> FALSE, text |-> Filler(PREVIEW_TEXT_LIMIT)],
     [fails |-> FALSE, text |-> Filler(PREVIEW_TEXT_LIMIT + 1)]}

\* The files handed to preview_pdf: None, readable documents of a usual
\* size, and files of every size, readable or not.
PdfFiles ==
    {[present |-> FALSE, size |-> 0, readable |-> FALSE, pages |-> << >>]}
    \cup [present : {TRUE}, size : {4096}, readable : {TRUE},
          pages : UNION {[1..n -> PdfPages] : n \in 0..MaxPages}]
    \cup [present : {TRUE}, size : FileSizes, readable : BOOLEAN,
          pages : {<<[fails |-> FALSE, text |-> <<"I","n","t","r","o">>]>>}]

\* preview_pdf(file_bytes, max_pages)
PreviewPdf ==
    \E f \in {Fields} :
        /\ op = "none"
        /\ \E file \in PdfFiles, max_pages \in 0..MaxPages :
               RunBlock("preview_pdf", [file |-> file, max_pages |-> max_pages],
                        f, preview_pdf(file, max_pages))

\* The body of preview_pdf and the handler around it, on a BytesIO.
PreviewPdfBlock ==
    \E f \in {Fields} :
        /\ op = "none"
        /\ \E file \in {p \in PdfFiles : p.present}, max_pages \in 0..MaxPages :
               RunBlock("preview_pdf_block",
                        [file |-> file, max_pages |-> max_pages], f,
                        processing_failed(preview_pdf_block(file, max_pages)))

\* The paragraphs of a DOCX and the rows of its tables.
DocxParagraphs ==
    {<<"I","n","t","r","o">>, <<" ">>, <<" "," ","p","a","d","d","e","d"," "," ">>, Filler(PREVIEW_TEXT_LIMIT)}

DocxTables ==
    {<< >>, <<<<<<"a">>, <<" ","b"," ">>>>, <<<<" ">>, << >>>>>>,
     <<<<Filler(PREVIEW_TEXT_LIMIT)>>>>}

\* The files handed to preview_docx.
DocxFiles ==
    {[present |-> FALSE, size |-> 0, readable |-> FALSE,
      paragraphs |-> << >>, rows |-> << >>]}
    \cup [present : {TRUE}, size : {4096}, readable : {TRUE},
          paragraphs : UNION {[1..n -> DocxParagraphs] : n \in 0..MaxPages},
          rows : DocxTables]
    \cup [present : {TRUE}, size : FileSizes, readable : BOOLEAN,
          paragraphs : {<<<<"I","n","t","r","o">>>>}, rows : {<< >>}]

\* preview_docx(file_bytes)
PreviewDocx ==
    \E f \in {Fields} :
        /\ op = "none"
        /\ \E file \in DocxFiles :
               RunBlock("preview_docx", [file |-> file], f, preview_docx(file))

\* The body of preview_docx and the handler around it, on a BytesIO.
PreviewDocxBlock ==
    \E f \in {Fields} :
        /\ op = "none"
        /\ \E file \in {d \in DocxFiles : d.present} :
               RunBlock("preview_docx_block", [file |-> file], f,
                        processing_failed(preview_docx_block(file)))

\* The sizes and the ceilings handed to validate_file_size; no ceiling
\* (None) stands for MAX_FILE_SIZE.
SizeInputs ==
    {-1, 0, 1, MAX_PREVIEW_SIZE, MAX_PREVIEW_SIZE + 1, MAX_FILE_SIZE,
     MAX_FILE_SIZE + 1}

CeilingInputs == {<< >>, <<MAX_PREVIEW_SIZE>>, <<1>>}

\* validate_file_size(file_size, max_size)
ValidateFileSize ==
    \E f \in {Fields} :
        /\ op = "none"
        /\ \E file_size \in SizeInputs, max_size \in CeilingInputs :
               \E r \in {validate_file_size(file_size, max_size)} :
                   RunBlock("validate_file_size",
                            [file_size |-> file_size, max_size |-> max_size],
                            f, Outcome(IF r.ok THEN Return(r.val)
                                       ELSE Throw(r.err), << >>))

\* preview_xlsx(file_bytes, max_rows)
PreviewXlsx ==
    \E f \in {Fields} :
        /\ op = "none"
        /\ \E file \in XlsxFiles, max_rows \in RowLimits :
               RunBlock("preview_xlsx", [file |-> file, max_rows |-> max_rows],
                        f, preview_xlsx(file, max_rows))

\* The body of preview_xlsx and the handler around it, on a BytesIO.
PreviewXlsxBlock ==
    \E f \in {Fields} :
        /\ op = "none"
        /\ \E file \in XlsxFiles \ {NoFile}, max_rows \in RowLimits :
               RunBlock("preview_xlsx_block",
                        [file |-> file, max_rows |-> max_rows], f,
                        processing_failed(preview_xlsx_block(file, max_rows)))

NextHelpers ==
    \/ CleanListItemData
    \/ ValidateUrl
    \/ ValidateAnyUrl
    \/ ValidateSearchQuery
    \/ ValidateFilename
    \/ ValidateCredentials
    \/ ValidateUserInput
    \/ ConstructError
    \/ PreviewXlsx
    \/ PreviewXlsxBlock
    \/ PreviewPdf
    \/ PreviewPdfBlock
    \/ PreviewDocx
    \/ PreviewDocxBlock
    \/ ValidateFileSize

SpecHelpers == InitBoundary /\ [][NextHelpers]_vars

(***************************************************************************)
(* Properties.                                                             *)
(***************************************************************************)
\* The operations that touch the network.
NetworkOps ==
    {"list_document_libraries", "search_documents", "download_file",
     "list_items", "search_list_items"}

\* Their blocks inside the boundary.
NetworkBlocks ==
    {"list_document_libraries_block", "search_documents_block",
     "download_file_block", "list_items_block", "search_list_items_block"}

\* The arguments of the last invocation pass the validators the operation
\* applies to them.
ArgumentsPass ==
    CASE op = "search_documents" ->
            /\ validate_library_name(inp.library_title).ok
            /\ validate_search_query(inp.query_text).ok
      [] op = "download_file" ->
            /\ validate_library_name(inp.library_title).ok
            /\ validate_filename(inp.file_name).ok
      [] op = "list_items" -> validate_library_name(inp.list_title).ok
      [] op = "search_list_items" ->
            /\ validate_library_name(inp.list_title).ok
            /\ validate_search_query(inp.query_text).ok
      [] OTHER -> TRUE

\* The last invocation was a connection attempt that called
\* _connect_with_credentials with the arguments recorded in inp.
ConnectWithArguments ==
    \/ op = "connect"
    \/ /\ op = "init"
       /\ inp.site_url # << >>
       /\ inp.client_id # << >>
       /\ inp.client_secret # << >>

\* C1: an operation invoked while the client is Disconnected (is_connected
\* false: never connected, connection attempt failed, or after disconnect)
\* fails with SharePointConnectionError and makes no transport call,
\* whatever its arguments.
C1_DisconnectedFailsOffline ==
    (op \in NetworkOps /\ ~pre.is_connected) =>
        /\ ~result.ok
        /\ result.err = "SharePointConnectionError"
        /\ tlog = << >>

\* C1 witness: download_file with an invalid library name, invoked on a
\* Disconnected client, failed with SharePointConnectionError and called
\* nothing.
C1_Witness ==
    /\ op = "download_file"
    /\ ~pre.is_connected
    /\ ~validate_library_name(inp.library_title).ok
    /\ result.err = "SharePointConnectionError"
    /\ tlog = << >>

C3_ValidConnectYieldsSession ==
    (/\ op = "init"
     /\ inp.site_url # << >>
     /\ inp.client_id # << >>
     /\ inp.client_secret # << >>
     /\ validate_url(inp.site_url, TRUE).ok
     /\ validate_credentials(inp.client_id, inp.client_secret).ok
     /\ inp.resps[1].kind = "ok") =>
        /\ result.ok
        /\ is_connected
        /\ site_url = <<validate_url(inp.site_url, TRUE).val>>
        /\ connection_time # << >>

\* C4: a connection attempt that fails leaves is_connected false and ctx,
\* site_url and connection_time unset, also on a client that was connected.
C4_FailedConnectLeavesNoSession ==
    (op \in {"init", "connect"} /\ ~result.ok) => Fields = NoSession

\* C5: on a Connected client an operation whose library or list name, query
\* or filename fails its validator raises ValidationError or SecurityError
\* and makes no transport call.
C5_InvalidInputRejectedLocally ==
    (op \in NetworkOps /\ pre.is_connected /\ ~ArgumentsPass) =>
        /\ ~result.ok
        /\ result.err \in {"ValidationError", "SecurityError"}
        /\ tlog = << >>

\* C5 witness: a search on a Connected client whose query the validator
\* refuses as dangerous raised SecurityError without a transport call.
C5_Witness ==
    /\ op = "search_list_items"
    /\ pre.is_connected
    /\ pre.ctx # << >>
    /\ validate_library_name(inp.list_title).ok
    /\ ~validate_search_query(inp.query_text).ok
    /\ result.err = "SecurityError"
    /\ tlog = << >>

\* C6: connecting with a URL or credentials that fail validation raises
\* ValidationError (code VALIDATION_ERROR) and makes no transport call.
C6_InvalidConnectSurfacesValidation ==
    (/\ ConnectWithArguments
     /\ \/ ~validate_url(inp.site_url, TRUE).ok
        \/ ~validate_credentials(inp.client_id, inp.client_secret).ok) =>
        /\ ~result.ok
        /\ result.err = "ValidationError"
        /\ result.code = "VALIDATION_ERROR"
        /\ tlog = << >>

\* The text holds the word in some letter case.
HoldsAnyCase(text, word) ==
    \E i \in 1..(Len(text) - Len(word) + 1) :
        Lower(SubSeq(text, i, i + Len(word) - 1)) = word

\* C7: the boundary maps a ClientRequestException by its text, in this
\* order: "401" or "403" gives Authentication, otherwise "404" gives
\* ResourceNotFound, otherwise "timeout" in any letter case gives Timeout,
\* otherwise Connection; any other exception gives Connection.
C7_ClassificationOrder ==
    op = "classify" =>
        /\ ~result.ok
        /\ result.err =
              IF inp.kind # "ClientRequestException"
              THEN "SharePointConnectionError"
              ELSE IF Contains(inp.text, <<"4","0","1">>)
                      \/ Contains(inp.text, <<"4","0","3">>)
              THEN "SharePointAuthenticationError"
              ELSE IF Contains(inp.text, <<"4","0","4">>)
              THEN "SharePointResourceNotFoundError"
              ELSE IF HoldsAnyCase(inp.text, <<"t","i","m","e","o","u","t">>)
              THEN "SharePointTimeoutError"
              ELSE "SharePointConnectionError"

\* C7 witness: a transport error whose text holds "404" before "401" and a
\* timeout marker was classified as Authentication.
C7_Witness ==
    /\ op = "classify"
    /\ inp.kind = "ClientRequestException"
    /\ inp.text = <<"4","0","4","T","i","m","e","O","u","t","4","0","1">>
    /\ result.err = "SharePointAuthenticationError"

\* C8: after the network block of an operation, or the boundary itself, has
\* failed on a Connected client with an Authentication or a Connection
\* error, is_connected is false.
C8_FailureLeavesDisconnected ==
    (/\ op \in NetworkBlocks \cup {"classify"}
     /\ pre.is_connected
     /\ ~result.ok
     /\ result.err \in {"SharePointAuthenticationError",
                        "SharePointConnectionError"}) =>
        ~is_connected

\* C9: disconnect() and __exit__ (also when the block raised) raise nothing
\* and from any state end with ctx, site_url and connection_time unset and
\* is_connected false, a state that another disconnect() leaves as it is.
C9_ReleaseAlwaysSucceeds ==
    op \in {"disconnect", "exit"} =>
        /\ result.ok
        /\ Fields = NoSession
        /\ disconnect_session(Fields) = Fields

\* C9 witness: a Connected client left by the exit of a block that raised.
C9_Witness ==
    /\ op = "exit"
    /\ inp.raised
    /\ pre.is_connected
    /\ pre.ctx # << >>
    /\ ~is_connected
    /\ ctx = << >>

MarkerCategory(text) ==
    IF Contains(text, <<"4","0","1">>) \/ Contains(text, <<"4","0","3">>)
    THEN "SharePointAuthenticationError"
    ELSE IF Contains(text, <<"4","0","4">>)
    THEN "SharePointResourceNotFoundError"
    ELSE IF Contains(Lower(text), <<"t","i","m","e","o","u","t">>)
    THEN "SharePointTimeoutError"
    ELSE "none"

\* The transport answered with a ClientRequestException that holds a marker.
MarkedFailure(resp) ==
    resp.kind = "ClientRequestException" /\ MarkerCategory(resp.text) # "none"

\* C11: when the library scan or the binary fetch of download_file fails
\* with a 401/403, 404 or timeout marker, the error raised is the one of the
\* marker's category, and it is not the missing-file error.
C11_DownloadFailureCategory ==
    op = "download_file_block" =>
        \A i \in 1..2 :
            MarkedFailure(inp.resps[i]) =>
                /\ result.err = MarkerCategory(inp.resps[i].text)
                /\ result.code = ErrorCodeOf(MarkerCategory(inp.resps[i].text))
                /\ result.err # "FileNotFoundError"

\* The rows of a search before the cap: the matching items in server order,
\* each as the row the operation makes of it.
UncappedRows ==
    IF op = "search_documents_block"
    THEN Bind(MatchingDocuments(inp.resps[1].data, Lower(inp.query)),
              LAMBDA found : [i \in 1..Len(found) |-> document_row(found[i])])
    ELSE Bind(SelectSeq(inp.resps[1].data,
                  LAMBDA p : ShouldInclude(p, parse_search_query(inp.query),
                                           Lower(inp.query))),
              LAMBDA found :
                  [i \in 1..Len(found) |-> clean_list_item_data(found[i])])

\* C12: search_documents and search_list_items return at most
\* MAX_SEARCH_RESULTS rows, and when more items match, the rows are those of
\* the first MAX_SEARCH_RESULTS matching items, in server order.
C12_SearchResultsCapped ==
    (op \in {"search_documents_block", "search_list_items_block"} /\ result.ok)
        => \E rows \in {UncappedRows} :
               /\ Len(result.value) <= MAX_SEARCH_RESULTS
               /\ Len(result.value)
                      = (IF Len(rows) > MAX_SEARCH_RESULTS
                         THEN MAX_SEARCH_RESULTS ELSE Len(rows))
               /\ \A i \in 1..Len(result.value) : result.value[i] = rows[i]

\* C12 witness: a document search that more than MAX_SEARCH_RESULTS items
\* matched returned MAX_SEARCH_RESULTS rows, the second of them the third
\* item of the library (the second item does not match).
C12_Witness ==
    /\ op = "search_documents_block"
    /\ result.ok
    /\ Len(MatchingDocuments(inp.resps[1].data, Lower(inp.query)))
           > MAX_SEARCH_RESULTS
    /\ Len(result.value) = MAX_SEARCH_RESULTS
    /\ result.value[2].Name = StrV(<<"p","o","l","i","c","y","3">>)

\* The client the last operation was invoked on was Connected.
OnConnected == pre.is_connected /\ pre.ctx # << >>

\* An empty-string or zero default.
IsDefault(value) ==
    \/ value.t = "str" /\ value.v = << >>
    \/ value.t = "int" /\ value.v = 0

\* The entry of a row made from the item's field key: the field's value, or
\* a default when the item has no such field.
RowFieldAgrees(value, p, key) ==
    IF key \in DOMAIN p THEN Same(value, p[key]) ELSE IsDefault(value)

\* The row is the one of item p.
RowOf(row, p) ==
    /\ Same(row.Name, Get(p, K_FileLeafRef, StrV(<< >>)))
    /\ RowFieldAgrees(row.Modified, p, K_Modified)
    /\ RowFieldAgrees(row.Size, p, K_File_x0020_Size)
    /\ RowFieldAgrees(row.FileRef, p, K_FileRef)
    /\ RowFieldAgrees(row.ContentType, p, K_ContentType)
    /\ RowFieldAgrees(row.Created, p, K_Created)
    /\ K_Editor \notin DOMAIN p => IsDefault(row.Author)

\* The items whose lower-cased FileLeafRef (the empty name when the item has
\* none) holds the lower-cased query.
NamedLike(items, query) ==
    SelectSeq(items, LAMBDA p :
        Contains(Lower(IF K_FileLeafRef \in DOMAIN p
                       THEN p[K_FileLeafRef].v ELSE << >>),
                 Lower(query)))

\* The rows are those of the first MAX_SEARCH_RESULTS of the items found.
RowsOfFound(rows, found) ==
    /\ Len(rows) = (IF Len(found) > MAX_SEARCH_RESULTS
                    THEN MAX_SEARCH_RESULTS ELSE Len(found))
    /\ \A i \in 1..Len(rows) : RowOf(rows[i], found[i])

\* C13: on a Connected client with an existing library, search_documents
\* returns, up to the cap, exactly the rows of the items whose lower-cased
\* FileLeafRef holds the lower-cased validated query (none: an empty table,
\* no error), a missing field giving an empty-string or zero default.
C13_SearchDocumentsRows ==
    (/\ op = "search_documents"
     /\ OnConnected
     /\ ArgumentsPass
     /\ inp.resps[1].kind = "ok") =>
        /\ result.ok
        /\ RowsOfFound(result.value,
               NamedLike(inp.resps[1].data,
                         validate_search_query(inp.query_text).val))

\* The transport answered with a 404 error.
NotFoundAnswer(resp) ==
    /\ resp.kind = "ClientRequestException"
    /\ Contains(resp.text, <<"4","0","4">>)
    /\ ~Contains(resp.text, <<"4","0","1">>)
    /\ ~Contains(resp.text, <<"4","0","3">>)

\* C14: when the transport answers the item fetch of search_documents,
\* list_items or search_list_items with a 404 error (no such library or
\* list), the operation fails with SharePointResourceNotFoundError, code
\* SP_NOT_FOUND.
C14_MissingLibraryNotFound ==
    (/\ op \in {"search_documents_block", "list_items_block",
                "search_list_items_block"}
     /\ NotFoundAnswer(inp.resps[1])) =>
        /\ ~result.ok
        /\ result.err = "SharePointResourceNotFoundError"
        /\ result.code = "SP_NOT_FOUND"

\* The number of binary downloads among the transport calls.
BinaryDownloads == Cardinality({i \in DOMAIN tlog : tlog[i].call = "open_binary"})

\* C15: download_file on a Connected client: when no item of the library has
\* FileLeafRef equal to the validated filename it fails with
\* FileNotFoundError (FILE_NOT_FOUND) without a binary download; when an item
\* has, exactly one binary download is issued, and an absent or empty
\* response body fails with FileDownloadError (FILE_DOWNLOAD_ERROR).
C15_DownloadOutcomes ==
    (/\ op = "download_file"
     /\ OnConnected
     /\ ArgumentsPass
     /\ inp.resps[1].kind = "ok") =>
        IF \A i \in DOMAIN inp.resps[1].data :
               ~Same(Get(inp.resps[1].data[i], K_FileLeafRef, NoneValue),
                     StrV(validate_filename(inp.file_name).val))
        THEN /\ ~result.ok
             /\ result.err = "FileNotFoundError"
             /\ result.code = "FILE_NOT_FOUND"
             /\ BinaryDownloads = 0
        ELSE /\ BinaryDownloads = 1
             /\ (\/ inp.resps[2].kind = "not_ok"
                 \/ inp.resps[2].kind = "ok" /\ inp.resps[2].data = << >>) =>
                    /\ ~result.ok
                    /\ result.err = "FileDownloadError"
                    /\ result.code = "FILE_DOWNLOAD_ERROR"

\* The entry of a library record made from the container's field key: the
\* field's value, or the empty string (zero for the item count).
RecordFieldAgrees(value, p, key, default) ==
    IF key \in DOMAIN p THEN Same(value, p[key]) ELSE Same(value, default)

\* The record is the one of container p.
RecordOf(record, p) ==
    /\ RecordFieldAgrees(record.title, p, K_Title, StrV(<< >>))
    /\ RecordFieldAgrees(record.description, p, K_Description, StrV(<< >>))
    /\ RecordFieldAgrees(record.item_count, p, K_ItemCount, IntV(0))
    /\ RecordFieldAgrees(record.created, p, K_Created, StrV(<< >>))
    /\ RecordFieldAgrees(record.last_modified, p, K_LastItemModifiedDate,
                         StrV(<< >>))
    /\ RecordFieldAgrees(record.id, p, K_Id, StrV(<< >>))

\* The containers whose BaseTemplate is 101, in server order.
DocumentLibraries(containers) ==
    SelectSeq(containers, LAMBDA p :
        /\ K_BaseTemplate \in DOMAIN p
        /\ p[K_BaseTemplate].t = "int"
        /\ p[K_BaseTemplate].v = 101)

\* The records are those of the document libraries among the containers.
RecordsOfLibraries(records, containers) ==
    \E libs \in {DocumentLibraries(containers)} :
        /\ Len(records) = Len(libs)
        /\ \A i \in 1..Len(libs) : RecordOf(records[i], libs[i])

\* C16: list_document_libraries on a Connected client returns one record
\* per container whose BaseTemplate is 101 and none for any other, in server
\* order, a missing metadata field replaced by its default.
C16_OnlyDocumentLibraries ==
    (/\ op = "list_document_libraries"
     /\ OnConnected
     /\ inp.resps[1].kind = "ok") =>
        /\ result.ok
        /\ RecordsOfLibraries(result.value, inp.resps[1].data)

\* Every (field, value) pair of the filters holds of the item: the
\* lower-cased value is part of the lower-cased string form of the item's
\* field, a missing field counting as the empty string.
SatisfiesFilters(item, filters) ==
    \A field \in DOMAIN filters :
        Contains(Lower(IF field \in DOMAIN item THEN PyStr(item[field])
                       ELSE << >>),
                 Lower(filters[field]))

\* The items list_items is to return for the filters (None, or a map).
Qualifying(items, filters) ==
    IF filters = << >> THEN items
    ELSE SelectSeq(items, LAMBDA p : SatisfiesFilters(p, filters[1]))

\* C17: list_items returns, unshaped and uncapped, exactly the items that
\* satisfy every pair of the filters; all items when there are no filters or
\* the filter map is empty.
C17_ListItemsFiltered ==
    (/\ op = "list_items"
     /\ OnConnected
     /\ ArgumentsPass
     /\ inp.resps[1].kind = "ok") =>
        /\ result.ok
        /\ result.value = Qualifying(inp.resps[1].data, inp.filters)

\* The (field, value) filters of the comma-separated parts of the query that
\* hold a colon: the field's canonical name (the name itself when it has
\* none) and the value, both stripped.
PartFilters(query) ==
    Bind(SelectSeq(Split(query, ","), LAMBDA part : Find(part, ":") > 0),
         LAMBDA parts :
             [i \in 1..Len(parts) |->
                 Bind(Find(parts[i], ":"), LAMBDA colon :
                     <<MappedField(Strip(SubSeq(parts[i], 1, colon - 1))),
                       Strip(From(parts[i], colon + 1))>>)])

\* Every filter value is part, in any letter case, of the item's field.
HoldsEveryFilter(item, pairs) ==
    \A i \in 1..Len(pairs) :
        Contains(Lower(IF pairs[i][1] \in DOMAIN item
                       THEN PyStr(item[pairs[i][1]]) ELSE << >>),
                 Lower(pairs[i][2]))

\* Some string-typed field of the item holds the query in any letter case.
SomeTextFieldHolds(item, query) ==
    \E key \in DOMAIN item :
        item[key].t = "str" /\ Contains(Lower(item[key].v), Lower(query))

\* The shaped rows of the first MAX_SEARCH_RESULTS of the items found.
ShapedRows(found) ==
    [i \in 1..(IF Len(found) > MAX_SEARCH_RESULTS
               THEN MAX_SEARCH_RESULTS ELSE Len(found)) |->
        clean_list_item_data(found[i])]

\* C18: search_list_items parses, then falls back: for a query with a colon
\* every part with a colon is a filter and only items that hold every filter
\* are returned, with no fallback; for a query without a colon exactly the
\* items some string field of which holds the query are returned.
C18_ParseThenFallback ==
    (/\ op = "search_list_items"
     /\ OnConnected
     /\ ArgumentsPass
     /\ inp.resps[1].kind = "ok") =>
        /\ result.ok
        /\ \E q \in {validate_search_query(inp.query_text).val} :
               IF Find(q, ":") > 0
               THEN result.value = ShapedRows(SelectSeq(inp.resps[1].data,
                        LAMBDA p : HoldsEveryFilter(p, PartFilters(q))))
               ELSE result.value = ShapedRows(SelectSeq(inp.resps[1].data,
                        LAMBDA p : SomeTextFieldHolds(p, q)))

\* The display fields the field map has with a non-null value, as indices
\* of the table of display fields.
PresentDisplay(item) ==
    {i \in 1..Len(DisplayFields) :
         /\ DisplayFields[i][1] \in DOMAIN item
         /\ item[DisplayFields[i][1]].t # "none"}

\* A string that holds a T and is longer than 10 characters.
LooksLikeDate(x) == x.t = "str" /\ Find(x.v, "T") > 0 /\ Len(x.v) > 10

\* The entry the shaper is to make of the non-null value x: of a dict its
\* Title entry, else its string form; of a string that looks like a date and
\* parses as ISO-8601 the date as YYYY-MM-DD; of another string the string.
ShapedAs(entry, x) ==
    CASE x.t = "dict" ->
            IF K_Title \in DOMAIN x.v THEN Same(entry, x.v[K_Title])
            ELSE Same(entry, StrV(PyStr(x)))
      [] LooksLikeDate(x) ->
            IF FromIsoFormatOk(ReplaceZ(x.v))
            THEN Same(entry, StrV(SubSeq(x.v, 1, 10)))
            ELSE Same(entry, x)
      [] x.t = "str" -> Same(entry, x)
      [] OTHER -> Same(entry, StrV(PyStr(x)))

\* C19: the result shaper never raises; the keys of its record are the
\* display names of the fields present with a non-null value, each entry
\* shaped by the type of the value; a map with no such field but a Title
\* shapes to {Title: value}, and one with neither to the empty record.
C19_ShaperTotal ==
    op = "clean_list_item_data" =>
        /\ result.ok
        /\ \E item \in {inp.item_data} :
               /\ DOMAIN result.value
                      = {DisplayFields[i][2] : i \in PresentDisplay(item)}
               /\ \A i \in PresentDisplay(item) :
                      ShapedAs(result.value[DisplayFields[i][2]],
                               item[DisplayFields[i][1]])
               /\ (PresentDisplay(item) = {} /\ K_Title \in DOMAIN item)
                      => result.value = (K_Title :> item[K_Title])
               /\ (PresentDisplay(item) = {} /\ K_Title \notin DOMAIN item)
                      => result.value = EmptyDict

\* scheme://host[:port]path[?query] of the URL made of the parts: the
\* scheme in lower case, no "?" for an empty query, no fragment.
Reconstruction(parts) ==
    Lower(parts.scheme) \o <<":","/","/">> \o parts.authority \o parts.path
    \o (IF Len(parts.query) > 1 THEN parts.query ELSE << >>)

\* C20: for a valid absolute http or https URL u, validate_url(u) is
\* scheme://host[:port]path[?query] of u, without its fragment, and
\* validating that value again returns it unchanged.
C20_UrlReconstructedIdempotent ==
    op = "validate_url" =>
        /\ result.ok
        /\ result.value = Reconstruction(inp.parts)
        /\ \E again \in {validate_url(result.value, TRUE)} :
               again.ok /\ again.val = result.value

\* The URL of the candidate is empty, longer than MAX_URL_LENGTH, of a
\* scheme other than http and https, or without a host.
Malformed(c, url) ==
    \/ url = << >>
    \/ Len(url) > MAX_URL_LENGTH
    \/ Lower(c.scheme) \notin {Http, Https}
    \/ c.host = << >>

\* The host of the candidate is one of the three local ones.
LocalHost(c) == Lower(c.host) \in LocalhostNames

\* C21: validate_url fails with ValidationError, and with no other error,
\* on an empty URL, a URL longer than 2048 characters, a scheme other than
\* http and https, a URL without a host and, when allow_localhost is false,
\* a local host; every other URL is accepted, a local host included when
\* allow_localhost is true.
C21_UrlRejections ==
    op = "validate_any_url" =>
        IF \/ Malformed(inp.candidate, inp.url)
           \/ (~inp.allow_localhost /\ LocalHost(inp.candidate))
        THEN ~result.ok /\ result.err = "ValidationError"
        ELSE result.ok

\* A local host is refused when allow_localhost is false.
C21_Witness ==
    /\ op = "validate_any_url"
    /\ ~Malformed(inp.candidate, inp.url)
    /\ LocalHost(inp.candidate)
    /\ ~inp.allow_localhost
    /\ result.err = "ValidationError"

\* The characters and the words a ValidatedQuery is free of.
BlacklistedChars == {"<", ">", "\"", "'", "&", ";", "|", GraveAccent}

BlacklistedWords ==
    {<<"s","e","l","e","c","t">>, <<"i","n","s","e","r","t">>, <<"u","p","d","a","t","e">>, <<"d","e","l","e","t","e">>, <<"d","r","o","p">>, <<"u","n","i","o","n">>,
     <<"e","x","e","c">>}

\* text holds one of the characters, or one of the words in any letter case.
Blacklisted(text) ==
    \/ \E i \in 1..Len(text) : text[i] \in BlacklistedChars
    \/ \E w \in BlacklistedWords : HoldsAnyCase(text, w)

\* C22: a value validate_search_query returns is the trimmed input, is not
\* empty, has at most 500 characters and holds none of the blacklisted
\* characters and words; an input within the length that holds one of them
\* fails with SecurityError; an empty input and an input whose trimmed form
\* is longer than 500 characters fail with ValidationError.
C22_ValidatedQuery ==
    op = "validate_search_query" =>
        \E text \in {CoreText(inp.candidate)} :
            /\ result.ok =>
                   /\ result.value = text
                   /\ result.value # << >>
                   /\ Len(result.value) <= MAX_QUERY_LENGTH
                   /\ ~Blacklisted(result.value)
            /\ (Len(text) <= MAX_QUERY_LENGTH /\ Blacklisted(text)) =>
                   (~result.ok /\ result.err = "SecurityError")
            /\ (inp.query = << >> \/ Len(text) > MAX_QUERY_LENGTH) =>
                   (~result.ok /\ result.err = "ValidationError")

\* The characters no file name holds and the names no file has.
ForbiddenNameChars == {"<", ">", ":", "\"", "|", "?", "*", "\\", "/"}

DeviceNames ==
    {<<"c","o","n">>, <<"p","r","n">>, <<"a","u","x">>, <<"n","u","l">>}
    \cup {<<"c","o","m">> \o <<d>> : d \in {"1","2","3","4","5","6","7","8","9"}}
    \cup {<<"l","p","t">> \o <<d>> : d \in {"1","2","3","4","5","6","7","8","9"}}

\* The name of a candidate with its extension stripped: without its last
\* dot and what follows it.
ExtensionStripped(c) ==
    IF c.ext # << >> THEN FilledStem(c) \o c.inner ELSE FilledStem(c)

\* The trimmed name is one validate_filename is to refuse.
RefusedName(c) ==
    \/ NameText(c) = << >>
    \/ Len(NameText(c)) > MAX_FILENAME_LENGTH
    \/ \E i \in 1..Len(NameText(c)) : NameText(c)[i] \in ForbiddenNameChars
    \/ Lower(ExtensionStripped(c)) \in DeviceNames

\* C23: validate_filename fails with ValidationError when the trimmed name
\* is empty, is longer than 255 characters, holds one of the nine forbidden
\* characters, or is, with its extension stripped and in any letter case, a
\* reserved device name; otherwise it returns the trimmed name.
C23_FilenameRefusals ==
    op = "validate_filename" =>
        IF RefusedName(inp.candidate)
        THEN ~result.ok /\ result.err = "ValidationError"
        ELSE result.ok /\ result.value = NameText(inp.candidate)

\* C24: validate_credentials fails with ValidationError when the id or the
\* secret is empty or the trimmed secret has fewer than 10 characters;
\* otherwise it returns the trimmed id and the trimmed secret, neither of
\* them empty, whatever the shape of the id.
C24_CredentialsPair ==
    op = "validate_credentials" =>
        IF \/ inp.client_id = << >>
           \/ inp.client_secret = << >>
           \/ Len(inp.candidate.secret) < MIN_SECRET_LENGTH
        THEN ~result.ok /\ result.err = "ValidationError"
        ELSE /\ result.ok
             /\ result.value.client_id = inp.candidate.id
             /\ result.value.client_secret = inp.candidate.secret
             /\ result.value.client_id # << >>
             /\ result.value.client_secret # << >>

\* The sanitized form of a text in pieces: its tags and its control
\* characters left out.
Sanitized(pieces) ==
    (IF pieces[1].kind = "text" THEN pieces[1].chars ELSE << >>)
    \o (IF pieces[2].kind = "text" THEN pieces[2].chars ELSE << >>)
    \o (IF pieces[3].kind = "text" THEN pieces[3].chars ELSE << >>)

\* The control characters of the ranges C0 and C1, the tab and the line
\* breaks apart.
ControlCharacters == RemovedControls \cup {"NEL"}

\* The limit in force: max_length, MAX_QUERY_LENGTH when it is None.
LimitInForce(max_length) ==
    IF max_length = << >> THEN MAX_QUERY_LENGTH ELSE max_length[1]

\* C25: validate_user_input rejects a text as too long exactly when its
\* sanitized form, without tags and control characters, is longer than
\* max_length, and a text it returns holds no tag and no control character.
C25_SanitizedBeforeLength ==
    op = "validate_user_input" =>
        /\ ~result.ok <=>
               Len(Sanitized(inp.pieces)) > LimitInForce(inp.max_length)
        /\ result.ok =>
               /\ ~\E i, j \in 1..Len(result.value) :
                      i < j /\ result.value[i] = "<" /\ result.value[j] = ">"
               /\ \A i \in 1..Len(result.value) :
                      result.value[i] \notin ControlCharacters

\* The machine code of each category of the taxonomy.
StableCode(cls) ==
    CASE cls = "SharePointConnectionError"       -> "SP_CONNECTION_ERROR"
      [] cls = "SharePointAuthenticationError"   -> "SP_AUTH_ERROR"
      [] cls = "SharePointResourceNotFoundError" -> "SP_NOT_FOUND"
      [] cls = "SharePointTimeoutError"          -> "SP_TIMEOUT"
      [] cls = "ValidationError"                 -> "VALIDATION_ERROR"
      [] cls = "SecurityError"                   -> "SECURITY_ERROR"
      [] cls = "ConfigurationError"              -> "CONFIG_ERROR"
      [] cls = "FileOperationError"              -> "FILE_ERROR"
      [] cls = "FileNotFoundError"               -> "FILE_NOT_FOUND"
      [] cls = "FileTooLargeError"               -> "FILE_TOO_LARGE"
      [] cls = "InvalidFileTypeError"            -> "INVALID_FILE_TYPE"
      [] cls = "FileDownloadError"               -> "FILE_DOWNLOAD_ERROR"

\* C26: every category of the taxonomy, the four file-operation
\* subcategories included, is constructed from a message without failing,
\* as a value of that category carrying its machine code.
C26_TaxonomyConstructible ==
    op = "construct" =>
        /\ result.ok
        /\ result.value.class = inp.cls
        /\ result.value.error_code = StableCode(inp.cls)

\* A row of a worksheet is blank: each cell is None or white space only.
BlankRow(row) ==
    \A i \in 1..Len(row) :
        row[i].t = "none" \/ \A k \in 1..Len(row[i].v) : row[i].v[k] = " "

\* The cells of a row as text, nothing for None.
RowText(row) == [i \in 1..Len(row) |-> row[i].v]

\* The first n rows of rows, all of them when there are fewer.
FirstRows(rows, n) == SubSeq(rows, 1, IF Len(rows) < n THEN Len(rows) ELSE n)

\* C27: on a worksheet with a non-blank row, preview_xlsx takes the first
\* non-blank row as the headers and returns the first max_rows non-blank
\* rows after it, and no more.
C27_FirstDataRows ==
    op \in {"preview_xlsx", "preview_xlsx_block"} =>
        \E filled \in {SelectSeq(inp.file.rows, LAMBDA row : ~BlankRow(row))} :
            (/\ inp.file.present
             /\ inp.file.readable
             /\ inp.file.size \in 1..MAX_PREVIEW_SIZE
             /\ filled # << >>) =>
                /\ result.ok
                /\ Len(result.value.rows) <= inp.max_rows
                /\ result.value.rows
                     = FirstRows([i \in 1..(Len(filled) - 1) |->
                                     RowText(filled[i + 1])], inp.max_rows)

\* The operations that preview a file, and those that preview its text.
Previews ==
    {"preview_pdf", "preview_pdf_block", "preview_docx", "preview_docx_block",
     "preview_xlsx", "preview_xlsx_block"}

TextPreviews ==
    {"preview_pdf", "preview_pdf_block", "preview_docx", "preview_docx_block"}

\* The text extracted from the file: of a PDF the texts of its first
\* max_pages pages, a blank line between them; of a DOCX its paragraphs and
\* then the rows of its tables, trimmed, one on a line, the cells of a row
\* joined by " | ".
Extracted(name, args) ==
    IF name \in {"preview_pdf", "preview_pdf_block"}
    THEN Join(PageTexts(SubSeq(args.file.pages, 1,
                  IF args.max_pages < Len(args.file.pages)
                  THEN args.max_pages ELSE Len(args.file.pages))),
              <<"\n", "\n">>)
    ELSE Join(StrippedTexts(args.file.paragraphs) \o RowTexts(args.file.rows),
              <<"\n">>)

\* What a text preview returns in place of a text.
Notices ==
    {<<"P","D","F"," ","f","i","l","e"," ","a","p","p","e","a","r","s"," ","t","o"," ","b","e"," ","e","m","p","t","y">>, <<"N","o"," ","r","e","a","d","a","b","l","e"," ","t","e","x","t"," ","f","o","u","n","d"," ","i","n"," ","P","D","F">>,
     <<"D","O","C","X"," ","f","i","l","e"," ","a","p","p","e","a","r","s"," ","t","o"," ","b","e"," ","e","m","p","t","y">>, <<"N","o"," ","r","e","a","d","a","b","l","e"," ","t","e","x","t"," ","f","o","u","n","d"," ","i","n"," ","D","O","C","X">>}

\* C28: each preview fails with FileOperationError, before the content is
\* parsed, on no file, on an empty one and on one larger than
\* MAX_PREVIEW_SIZE; validate_file_size accepts a size exactly when it is
\* above 0 and at most the ceiling; a text preview returns a notice that
\* there is no text, or the extracted text when it has at most
\* PREVIEW_TEXT_LIMIT characters, or its first PREVIEW_TEXT_LIMIT characters
\* followed by "..." when it has more.
C28_PreviewCeilings ==
    /\ (/\ op \in Previews
        /\ \/ ~inp.file.present
           \/ inp.file.size = 0
           \/ inp.file.size > MAX_PREVIEW_SIZE) =>
           /\ ~result.ok
           /\ result.err = "FileOperationError"
           /\ tlog = << >>
    /\ op = "validate_file_size" =>
           (result.ok <=>
                /\ 0 < inp.file_size
                /\ inp.file_size <= (IF inp.max_size = << >> THEN MAX_FILE_SIZE
                                     ELSE inp.max_size[1]))
    /\ (op \in TextPreviews /\ result.ok) =>
           \E text \in {Extracted(op, inp)} :
               \/ result.value \in Notices
               \/ /\ text # << >>
                  /\ Len(text) <= PREVIEW_TEXT_LIMIT
                  /\ result.value = text
               \/ /\ Len(text) > PREVIEW_TEXT_LIMIT
                  /\ Len(result.value) = PREVIEW_TEXT_LIMIT + 3
                  /\ SubSeq(result.value, 1, PREVIEW_TEXT_LIMIT)
                       = SubSeq(text, 1, PREVIEW_TEXT_LIMIT)
                  /\ SubSeq(result.value, PREVIEW_TEXT_LIMIT + 1,
                            PREVIEW_TEXT_LIMIT + 3) = <<".", ".", ".">>

\* A text preview has cut a text longer than PREVIEW_TEXT_LIMIT.
C28_Witness ==
    /\ op \in TextPreviews
    /\ result.ok
    /\ Len(Extracted(op, inp)) > PREVIEW_TEXT_LIMIT
    /\ Len(result.value) = PREVIEW_TEXT_LIMIT + 3

(***************************************************************************)
(* The read operations leave the client alone, and a repeated call.        *)
(***************************************************************************)
ReadOps ==
    {"list_document_libraries", "search_documents", "list_items",
     "search_list_items", "download_file", "get_connection_info"}

\* The result of the recorded call made again now, on the client as it is
\* and with the remote store answering as it did.
Repeated ==
    CASE op = "list_document_libraries" ->
             list_document_libraries(Fields, inp.resps[1]).result
      [] op = "search_documents" ->
             search_documents(Fields, inp.library_title, inp.query_text,
                              inp.resps[1]).result
      [] op = "list_items" ->
             list_items(Fields, inp.list_title, inp.filters,
                        inp.resps[1]).result
      [] op = "search_list_items" ->
             search_list_items(Fields, inp.list_title, inp.query_text,
                               inp.resps[1]).result
      [] op = "download_file" ->
             download_file(Fields, inp.library_title, inp.file_name,
                           inp.resps[1], inp.resps[2], inp.clash).result
      [] op = "get_connection_info" ->
             Return(get_connection_info(Fields, clock))

\* What get_connection_info reports of the stored fields.
StoredPart(info) ==
    [is_connected    |-> info.is_connected,
     site_url        |-> info.site_url,
     connection_time |-> info.connection_time]

\* The frame of a read operation, and what get_connection_info returns.
ReadFrame ==
    op \in ReadOps =>
        /\ Fields = pre
        /\ op = "get_connection_info" =>
               /\ tlog = << >>
               /\ result.ok
               /\ result.value.site_url = pre.site_url
               /\ result.value.is_connected = pre.is_connected
               /\ (pre.connection_time = << >>
                     => result.value.uptime_seconds = << >>)

AllSupplied ==
    /\ inp.site_url # << >>
    /\ inp.client_id # << >>
    /\ inp.client_secret # << >>

\* The recorded configuration is loaded and holds its three settings.
CompleteConfig ==
    /\ inp.config # << >>
    /\ inp.config[1].site_url # << >>
    /\ inp.config[1].client_id # << >>
    /\ inp.config[1].client_secret # << >>

\* What the construction left behind.
Constructed == [fields |-> Fields, result |-> result, tlog |-> tlog]

==========================================================================
